---- MODULE Spec2Model ----
(***************************************************************************)
(* Model of the embedding store of service_sap_builder:                    *)
(*   - src/src/services/embeddings.js  (persistence coordinator, search)   *)
(*   - src/src/services/openai.js      (translator, embedding generator)   *)
(*   - the database module (pool, query, transaction), found at            *)
(*     src/projects/sapui5-menu/webapp/controller/Home.controller.js:39-97 *)
(*                                                                         *)
(* The specifications of the module:                                       *)
(*   Spec        units of work (processDocumentWithChunking,               *)
(*               saveUserPrompt) running concurrently over the pg pool,    *)
(*               with failing embedding calls and database statements;     *)
(*   SpecSave    saveEmbedding, saveUserPrompt and one                     *)
(*               processDocumentWithChunking against every kind of         *)
(*               translator answer and failing embedding calls;            *)
(*   SpecTxn     transaction() with failing BEGIN, COMMIT and ROLLBACK;    *)
(*   SpecSearch  one search invocation (searchSimilar,                     *)
(*               searchSimilarWithTranslation,                             *)
(*               searchWithProgressiveThreshold) over a store drawn from   *)
(*               bounded sets;                                             *)
(*   SpecTranslate  one call of the translator;                            *)
(*   SpecChunk   one call of the chunker;                                  *)
(*   SpecStore   the writers with getDocumentChunks and the searches       *)
(*               reading the store they commit to;                         *)
(*   SpecRoute   POST /generate and GET /search of src/src/app.js in front *)
(*               of saveEmbedding and searchSimilarWithTranslation;        *)
(*   SpecFiles   concurrent requests to the /:id/files routes of           *)
(*               src/src/routes/projects.js with src/src/utils/paths.js.   *)
(* Distances, thresholds and similarities are fixed-point tenths:          *)
(* 13 stands for 1.3.                                                      *)
(***************************************************************************)
EXTENDS Integers, Sequences, FiniteSets, TLC

(* ------------------------------ bounds -------------------------------- *)
NumDocs == 2
NumPrompts == 1
MaxChunks == 2
PoolSize == 2
MaxFaults == 2
NumSaves == 1

Docs == 1..NumDocs
Prompts == (NumDocs + 1)..(NumDocs + NumPrompts)
Saves == (NumDocs + NumPrompts + 1)..(NumDocs + NumPrompts + NumSaves)
Units == Docs \cup Prompts \cup Saves
Conns == 1..PoolSize
ChunkIdx == 0..(MaxChunks - 1)
Languages == {"en", "pt"}
NoClient == 0
NoDoc == 0

VARIABLES
    pc,            \* unit -> position in transaction()/callback
    client,        \* unit -> the pooled client handed out by pool.connect()
    lang,          \* unit -> language argument
    nChunks,       \* doc unit -> chunks.length
    chunkPc,       \* doc unit -> chunk index -> position of the chunk task
    processedChunks, \* doc unit -> processedChunks counter
    idle,          \* pool: stack of idle clients (pg-pool pops the last released)
    connTxn,       \* client -> "none" | "open" | "aborted"
    connPending,   \* client -> rows written in the open transaction
    committed,     \* the tables as seen by any other session
    faults,        \* number of injected upstream/database failures so far
    translationInfo,      \* unit -> what the translator returned (or null)
    chunkTranslationInfo  \* doc unit -> chunk index -> the same per chunk

trvars == <<translationInfo, chunkTranslationInfo>>

pvars == <<pc, client, lang, nChunks, chunkPc, processedChunks, idle,
           connTxn, connPending, committed, faults, trvars>>

VARIABLES
    searchRows,    \* embeddings_base as one search sees it: id, type, distance
    spc,           \* position of the search invocation
    sargs,         \* arguments of the search invocation
    callLog,       \* external calls issued by the search, in order
    attempts,      \* progressive search: <<threshold, rows>> of each store query
    results,       \* rows returned to the caller
    usedThreshold  \* progressive search: usedThreshold (NullThreshold = null)

svars == <<searchRows, spc, sargs, callLog, attempts, results, usedThreshold>>

VARIABLES
    tpc,           \* position of one translator call
    targs,         \* its arguments: text, sourceLanguage
    tanswer,       \* what the chat completion call produced
    tresult        \* the object the translator returned

tvars == <<tpc, targs, tanswer, tresult>>

VARIABLES
    kpc,           \* position of one splitTextIntoChunks call
    kargs,         \* its arguments and the environment it reads
    ki,            \* the loop variable i
    kiter,         \* iterations of the loop executed so far
    chunks         \* the chunks array

kvars == <<kpc, kargs, ki, kiter, chunks>>

VARIABLES
    gpc,           \* position of one getDocumentChunks call
    gargs,         \* its argument: documentId
    documentChunks \* the rows it returned

gvars == <<gpc, gargs, documentChunks>>

VARIABLES
    rpc,           \* position of one HTTP request to the embeddings router
    rreq,          \* the request: route and what it carries
    rstatus        \* status of the response (0: none yet)

rvars == <<rpc, rreq, rstatus>>

VARIABLES
    files,         \* the file system under BASE_DIR: path -> content
    fpc,           \* file request -> position in its route handler
    freq,          \* file request -> method, project id, filepath, ...
    fstatus,       \* file request -> status of the response (0: none yet)
    ftouched       \* file request -> the path it read, wrote or removed

fvars == <<files, fpc, freq, fstatus, ftouched>>

vars == <<pvars, svars, tvars, kvars, gvars, rvars, fvars>>

(* No getDocumentChunks call, no HTTP request and no file request is part  *)
(* of the specification.                                                   *)
InitReadIdle ==
    /\ gpc = "off" /\ gargs = 0 /\ documentChunks = <<>>

InitRouteIdle ==
    /\ rpc = "off" /\ rreq = <<>> /\ rstatus = 0

InitFilesIdle ==
    /\ files = <<>> /\ fpc = <<>> /\ freq = <<>> /\ fstatus = <<>> /\ ftouched = <<>>

Min(a, b) == IF a <= b THEN a ELSE b
Max(a, b) == IF a >= b THEN a ELSE b

(* ====================== translator (openai.js:14-88) =================== *)
Undefined == "undefined"
Texts == {"hello world", "ola mundo"}
EnglishTexts == {"hello world"}
SourceLanguages == {"en", "auto", "pt"}
JsBooleans == {"true", "false"}

(* What openai.chat.completions.create(...) followed by JSON.parse of the  *)
(* message content can produce: the call rejects, the content is not JSON, *)
(* the content is JSON null, or it is a JSON object whose translatedText,  *)
(* wasTranslated and detectedLanguage are whatever the model wrote or are  *)
(* absent.                                                                 *)
ModelAnswers ==
    {[kind |-> k, translatedText |-> Undefined, wasTranslated |-> Undefined,
      detectedLanguage |-> Undefined] : k \in {"error", "notJson", "jsonNull"}}
    \cup [kind : {"json"},
          translatedText : Texts \cup {Undefined},
          wasTranslated : JsBooleans \cup {Undefined},
          detectedLanguage : {"en", "pt"}]

(* Mutant: the catch block hands the failure on instead of the original    *)
(* text: the caller is left without a text.                                *)
TranslationFallback_NoText(text) ==
    [originalText |-> text, translatedText |-> Undefined,
     wasTranslated |-> Undefined, detectedLanguage |-> "unknown"]

(* The object of the catch block (openai.js:80-86).                        *)
TranslationFallback(text) ==
    [originalText |-> text, translatedText |-> text, wasTranslated |-> "false",
     detectedLanguage |-> "unknown"]

(* translateToEnglishPreservingTechnicalTerms(text, sourceLanguage):       *)
(* sourceLanguage is only logged; the chat completion is always called;    *)
(* a rejected call, a JSON.parse error or a property read on null lands in *)
(* the catch block; otherwise the fields of the parsed object are returned *)
(* as they are.                                                            *)
translateToEnglishPreservingTechnicalTerms(text, sourceLanguage, answer) ==
    IF answer.kind # "json"
    THEN TranslationFallback(text)
    ELSE [originalText |-> text, translatedText |-> answer.translatedText,
          wasTranslated |-> answer.wasTranslated,
          detectedLanguage |-> answer.detectedLanguage]

(* The model answers as instructed: a complete object with the English    *)
(* text.                                                                   *)
TranslatedAnswers ==
    {[kind |-> "json", translatedText |-> "hello world", wasTranslated |-> "true",
      detectedLanguage |-> "pt"]}

(* Answers a unit of work is run against: the answer is complete, the call *)
(* fails, the answer lacks translatedText.                                 *)
UnitAnswers ==
    TranslatedAnswers \cup
    {[kind |-> "error", translatedText |-> Undefined, wasTranslated |-> Undefined,
      detectedLanguage |-> Undefined],
     [kind |-> "json", translatedText |-> Undefined, wasTranslated |-> "true",
      detectedLanguage |-> "pt"]}

NoAnswer ==
    [kind |-> "none", translatedText |-> Undefined, wasTranslated |-> Undefined,
     detectedLanguage |-> Undefined]
NoTranslation ==
    [originalText |-> Undefined, translatedText |-> Undefined,
     wasTranslated |-> Undefined, detectedLanguage |-> Undefined]
NoArgs == [text |-> Undefined, sourceLanguage |-> Undefined]

InitTranslateIdle ==
    /\ tpc = "off"
    /\ targs = NoArgs
    /\ tanswer = NoAnswer
    /\ tresult = NoTranslation

TranslateFrame == UNCHANGED <<pvars, svars, kvars, gvars, rvars, fvars>>

(* The translator is called: it awaits the chat completion.                *)
CallTranslate(text, sourceLanguage) ==
    /\ tpc = "idle"
    /\ targs' = [text |-> text, sourceLanguage |-> sourceLanguage]
    /\ tpc' = "awaitModel"
    /\ UNCHANGED <<tanswer, tresult>>
    /\ TranslateFrame

(* The chat completion settles and the translator returns.                 *)
ReturnTranslate(answer) ==
    /\ tpc = "awaitModel"
    /\ tanswer' = answer
    /\ tresult' = translateToEnglishPreservingTechnicalTerms(
                      targs.text, targs.sourceLanguage, answer)
    /\ tpc' = "returned"
    /\ UNCHANGED targs
    /\ TranslateFrame

(* ================= chunker (openai.js:171-194) ========================= *)
MaxWordCount == 4
MaxChunkArg == 3
(* Iterations followed in a run: more than any run with a positive step    *)
(* needs.                                                                  *)
MaxIterations == MaxWordCount + 3
DefaultMaxWords == 50
DefaultOverlapWords == 25
(* null, undefined or NaN where a number is expected.                      *)
NullArg == -1

(* A text: n words separated by whitespace, with or without whitespace     *)
(* before the first and after the last word.                               *)
ChunkTexts == [lead : BOOLEAN, n : 0..MaxWordCount, trail : BOOLEAN]
MaxWordsArgs == {NullArg} \cup 1..MaxChunkArg
OverlapArgs == {NullArg} \cup 0..MaxChunkArg
EnvMaxWords == {NullArg, 2}
EnvOverlapWords == {NullArg, 1}

(* a || b on numbers: null, NaN and 0 are falsy.                           *)
JsOr(a, b) == IF a = NullArg \/ a = 0 THEN b ELSE a

(* maxWords || parseInt(process.env.CHUNK_MAX_WORDS) || 50                 *)
maxWordsToUse ==
    JsOr(kargs.maxWords, JsOr(kargs.envMaxWords, DefaultMaxWords))

(* overlap || parseInt(process.env.CHUNK_OVERLAP_WORDS) || 25              *)
overlapToUse ==
    JsOr(kargs.overlap, JsOr(kargs.envOverlapWords, DefaultOverlapWords))

(* text.split(/\s+/): the words 1..n, an empty string (0) for whitespace   *)
(* at either end, and [""] or ["", ""] for a text without any word.        *)
SplitWords(text) ==
    IF text.n = 0
    THEN (IF text.lead \/ text.trail THEN <<0, 0>> ELSE <<0>>)
    ELSE (IF text.lead THEN <<0>> ELSE <<>>)
         \o [j \in 1..text.n |-> j]
         \o (IF text.trail THEN <<0>> ELSE <<>>)

words == SplitWords(kargs.text)

(* Array.prototype.slice(start, end), negative indexes count from the end. *)
JsSlice(arr, start, end) ==
    LET from == IF start < 0 THEN Max(Len(arr) + start, 0) ELSE Min(start, Len(arr))
        to == IF end < 0 THEN Max(Len(arr) + end, 0) ELSE Min(end, Len(arr))
    IN IF from >= to THEN <<>> ELSE SubSeq(arr, from + 1, to)

(* .join(' ').trim(): the empty strings sit at the ends of the array only, *)
(* so what is left is the words of the slice; <<>> is the empty string.    *)
JoinTrim(slice) == SelectSeq(slice, LAMBDA w : w # 0)

NoChunkArgs ==
    [text |-> [lead |-> FALSE, n |-> 0, trail |-> FALSE], maxWords |-> NullArg,
     overlap |-> NullArg, envMaxWords |-> NullArg, envOverlapWords |-> NullArg]

InitChunkIdle ==
    /\ kpc = "off"
    /\ kargs = NoChunkArgs
    /\ ki = 0
    /\ kiter = 0
    /\ chunks = <<>>

ChunkFrame == UNCHANGED <<pvars, svars, tvars, gvars, rvars, fvars>>

(* splitTextIntoChunks(text, maxWords, overlap) is called: words = ...,    *)
(* chunks = [], i = 0.                                                     *)
CallSplit(text, maxWords, overlap, envMaxWords, envOverlapWords) ==
    /\ kpc = "idle"
    /\ kargs' = [text |-> text, maxWords |-> maxWords, overlap |-> overlap,
                 envMaxWords |-> envMaxWords, envOverlapWords |-> envOverlapWords]
    /\ ki' = 0
    /\ kiter' = 0
    /\ chunks' = <<>>
    /\ kpc' = "loop"
    /\ ChunkFrame

(* One iteration of for (i = 0; i < words.length; i += max - overlap).     *)
LoopStep ==
    /\ kpc = "loop"
    /\ ki < Len(words)
    /\ kiter < MaxIterations
    /\ LET chunk == JoinTrim(JsSlice(words, ki, ki + maxWordsToUse))
       IN chunks' = IF chunk # <<>> THEN Append(chunks, chunk) ELSE chunks
    /\ ki' = ki + (maxWordsToUse - overlapToUse)
    /\ kiter' = kiter + 1
    /\ UNCHANGED <<kpc, kargs>>
    /\ ChunkFrame

(* The loop condition fails: return chunks.                                *)
LoopExit ==
    /\ kpc = "loop"
    /\ ~(ki < Len(words))
    /\ kpc' = "done"
    /\ UNCHANGED <<kargs, ki, kiter, chunks>>
    /\ ChunkFrame

(* ============================ persistence ============================== *)
EmptyTables ==
    [embeddings_base |-> {}, documentation_embeddings |-> {}, user_prompts |-> {}]

(* The content handed to a unit of work (or one chunk of it): its words do *)
(* not matter here, only whether what is stored derives from it.           *)
Content == "ola mundo"

(* cleanTextForEmbedding(text): whitespace collapsed, trimmed, cut to 8000 *)
(* characters; kept symbolic, the cleaned form of a text.                  *)
cleanTextForEmbedding(text) == <<"clean", text>>

(* generateEmbedding(text): the vector the embedding model gives the text, *)
(* kept symbolic.                                                          *)
generateEmbedding(text) == <<"embedding", text>>

(* Mutant: contentToSave is never reassigned, the original is embedded.    *)
ToSave_Original(info) == Content

(* let contentToSave = content; if translated: = info.translatedText       *)
ToSave(info) ==
    IF info = NoTranslation THEN Content ELSE info.translatedText

(* let wasTranslated = false; if translated: = info.wasTranslated          *)
WasTranslated(info) ==
    IF info = NoTranslation THEN "false" ELSE info.wasTranslated

(* A row of embeddings_base written by a chunk task (embeddings.js:404-415) *)
ChunkRow(u, k) ==
    [unit |-> u, document_id |-> u, chunk_index |-> k, chunk_total |-> nChunks[u],
     content_type |-> "documentation",
     content |-> cleanTextForEmbedding(ToSave(chunkTranslationInfo[u][k])),
     embedding |->
         generateEmbedding(cleanTextForEmbedding(ToSave(chunkTranslationInfo[u][k]))),
     was_translated |-> WasTranslated(chunkTranslationInfo[u][k])]

(* A row of embeddings_base written by saveUserPrompt (embeddings.js:210-215) *)
PromptEmbeddingRow(u) ==
    [unit |-> u, document_id |-> NoDoc, chunk_index |-> 0, chunk_total |-> 0,
     content_type |-> "prompt",
     content |-> cleanTextForEmbedding(ToSave(translationInfo[u])),
     embedding |-> generateEmbedding(cleanTextForEmbedding(ToSave(translationInfo[u]))),
     was_translated |-> WasTranslated(translationInfo[u])]

(* The row of embeddings_base written by saveEmbedding (embeddings.js:44-49) *)
(* of content of type 'source_code'.                                       *)
SaveRow(u) ==
    [unit |-> u, document_id |-> NoDoc, chunk_index |-> 0, chunk_total |-> 0,
     content_type |-> "source_code",
     content |-> cleanTextForEmbedding(ToSave(translationInfo[u])),
     embedding |-> generateEmbedding(cleanTextForEmbedding(ToSave(translationInfo[u]))),
     was_translated |-> WasTranslated(translationInfo[u])]

(* documentation_embeddings row (embeddings.js:350-358), total_chunks = 0 *)
DocRow(u) == [id |-> u, total_chunks |-> 0]

(* user_prompts row (embeddings.js:220-225) *)
PromptRow(u) == [id |-> u, embedding_id |-> u, prompt_text |-> Content]

InitPersistence ==
    /\ pc = [u \in Units |-> "idle"]
    /\ client = [u \in Units |-> NoClient]
    /\ lang = [u \in Units |-> "en"]
    /\ nChunks = [u \in Docs |-> 0]
    /\ chunkPc = [u \in Docs |-> [k \in ChunkIdx |-> "none"]]
    /\ processedChunks = [u \in Docs |-> 0]
    /\ idle = [i \in 1..PoolSize |-> i]
    /\ connTxn = [c \in Conns |-> "none"]
    /\ connPending = [c \in Conns |-> EmptyTables]
    /\ committed = EmptyTables
    /\ faults = 0
    /\ translationInfo = [u \in Units |-> NoTranslation]
    /\ chunkTranslationInfo = [u \in Docs |-> [k \in ChunkIdx |-> NoTranslation]]

(* ---------------- the database session behind a client ----------------- *)
(* Outcome of a statement sent on client c: inside an aborted transaction  *)
(* PostgreSQL refuses every statement; otherwise it succeeds or an         *)
(* injected failure makes it fail.                                         *)
StmtAllowed(c, ok) ==
    IF connTxn[c] = "aborted" THEN ~ok ELSE (ok \/ faults < MaxFaults)

FaultsAfter(c, ok) ==
    IF ~ok /\ connTxn[c] # "aborted" THEN faults + 1 ELSE faults

(* An upstream call (embedding model) succeeds or fails by injection.      *)
CallAllowed(ok) == ok \/ faults < MaxFaults

(* Mutant: the INSERT into embeddings_base replaces the rows its unit of   *)
(* work wrote before (an upsert keyed on the owner).                       *)
AddRow_Upsert(tables, table, row) ==
    [tables EXCEPT ![table] =
        IF table = "embeddings_base"
        THEN {r \in @ : r.unit # row.unit} \cup {row}
        ELSE @ \cup {row}]

AddRow(tables, table, row) == [tables EXCEPT ![table] = @ \cup {row}]

(* client.query(INSERT ...) on client c: inside an open transaction the    *)
(* row is pending, outside any transaction it is committed at once         *)
(* (autocommit); a failure inside a transaction aborts the transaction.    *)
ExecInsert(c, ok, table, row) ==
    /\ StmtAllowed(c, ok)
    /\ faults' = FaultsAfter(c, ok)
    /\ connTxn' = IF ~ok /\ connTxn[c] = "open"
                  THEN [connTxn EXCEPT ![c] = "aborted"] ELSE connTxn
    /\ connPending' = IF ok /\ connTxn[c] = "open"
                      THEN [connPending EXCEPT ![c] = AddRow(@, table, row)]
                      ELSE connPending
    /\ committed' = IF ok /\ connTxn[c] = "none"
                    THEN AddRow(committed, table, row) ELSE committed

SetTotal(rows, id, n) ==
    {IF r.id = id THEN [r EXCEPT !.total_chunks = n] ELSE r : r \in rows}

(* client.query(UPDATE documentation_embeddings SET total_chunks ...)      *)
ExecUpdateTotal(c, ok, id, n) ==
    /\ StmtAllowed(c, ok)
    /\ faults' = FaultsAfter(c, ok)
    /\ connTxn' = IF ~ok /\ connTxn[c] = "open"
                  THEN [connTxn EXCEPT ![c] = "aborted"] ELSE connTxn
    /\ connPending' = IF ok /\ connTxn[c] = "open"
                      THEN [connPending EXCEPT ![c].documentation_embeddings =
                                SetTotal(@, id, n)]
                      ELSE connPending
    /\ committed' = IF ok /\ connTxn[c] = "none"
                    THEN [committed EXCEPT !.documentation_embeddings =
                              SetTotal(@, id, n)]
                    ELSE committed

MergeTables(a, b) ==
    [embeddings_base |-> a.embeddings_base \cup b.embeddings_base,
     documentation_embeddings |->
         a.documentation_embeddings \cup b.documentation_embeddings,
     user_prompts |-> a.user_prompts \cup b.user_prompts]

(* pool.connect() hands out the most recently released idle client.        *)
PoolPop == idle[Len(idle)]
PoolRest == SubSeq(idle, 1, Len(idle) - 1)
(* client.release() puts the client back on the idle stack.                *)
PoolRelease(c) == Append(idle, c)


(* ------------------- transaction(callback), database module ------------ *)
(* First await of the callback once BEGIN has succeeded.                   *)
CallbackEntry(u) ==
    IF u \in Docs
    THEN (IF lang[u] # "en" THEN "translateSample" ELSE "insertDoc")
    ELSE (IF lang[u] # "en" THEN "translate" ELSE "embed")

(* processDocumentWithChunking(documentContent, ..., language) is called:  *)
(* the document splits into n chunks; transaction() awaits pool.connect(). *)
StartIngest(u, n, l) ==
    /\ u \in Docs /\ pc[u] = "idle"
    /\ pc' = [pc EXCEPT ![u] = "connect"]
    /\ nChunks' = [nChunks EXCEPT ![u] = n]
    /\ lang' = [lang EXCEPT ![u] = l]
    /\ UNCHANGED <<client, chunkPc, processedChunks, idle, connTxn,
                   connPending, committed, faults>>
    /\ UNCHANGED <<svars, tvars, kvars, gvars, rvars, fvars>>
    /\ UNCHANGED trvars

(* saveUserPrompt(promptText, ..., language) is called.                    *)
StartPrompt(u, l) ==
    /\ u \in Prompts /\ pc[u] = "idle"
    /\ pc' = [pc EXCEPT ![u] = "connect"]
    /\ lang' = [lang EXCEPT ![u] = l]
    /\ UNCHANGED <<client, nChunks, chunkPc, processedChunks, idle, connTxn,
                   connPending, committed, faults>>
    /\ UNCHANGED <<svars, tvars, kvars, gvars, rvars, fvars>>
    /\ UNCHANGED trvars

(* const client = await pool.connect()                                     *)
Connect(u) ==
    /\ pc[u] = "connect"
    /\ Len(idle) > 0
    /\ client' = [client EXCEPT ![u] = PoolPop]
    /\ idle' = PoolRest
    /\ pc' = [pc EXCEPT ![u] = "begin"]
    /\ UNCHANGED <<lang, nChunks, chunkPc, processedChunks, connTxn,
                   connPending, committed, faults>>
    /\ UNCHANGED <<svars, tvars, kvars, gvars, rvars, fvars>>
    /\ UNCHANGED trvars

(* pool.connect() rejects after connectionTimeoutMillis when no client is  *)
(* free: the rejection is outside the try block, nothing is released.      *)
ConnectTimeout(u) ==
    /\ pc[u] = "connect"
    /\ Len(idle) = 0
    /\ pc' = [pc EXCEPT ![u] = "rejected"]
    /\ UNCHANGED <<client, lang, nChunks, chunkPc, processedChunks, idle,
                   connTxn, connPending, committed, faults>>
    /\ UNCHANGED <<svars, tvars, kvars, gvars, rvars, fvars>>
    /\ UNCHANGED trvars

(* await client.query('BEGIN')                                             *)
Begin(u, ok) ==
    /\ pc[u] = "begin"
    /\ StmtAllowed(client[u], ok)
    /\ faults' = FaultsAfter(client[u], ok)
    /\ connTxn' = IF ok THEN [connTxn EXCEPT ![client[u]] = "open"] ELSE connTxn
    /\ pc' = [pc EXCEPT ![u] = IF ok THEN CallbackEntry(u) ELSE "rollback"]
    /\ UNCHANGED <<client, lang, nChunks, chunkPc, processedChunks, idle,
                   connPending, committed>>
    /\ UNCHANGED <<svars, tvars, kvars, gvars, rvars, fvars>>
    /\ UNCHANGED trvars

(* await client.query('COMMIT'); return result; finally client.release().  *)
(* COMMIT of an aborted transaction is answered as a ROLLBACK without an   *)
(* error; a failing COMMIT ends the transaction and enters the catch.      *)
Commit(u, ok) ==
    /\ pc[u] = "commit"
    /\ LET c == client[u] IN
       /\ IF connTxn[c] = "aborted" THEN ok ELSE CallAllowed(ok)
       /\ faults' = IF ok THEN faults ELSE faults + 1
       /\ committed' = IF ok /\ connTxn[c] = "open"
                       THEN MergeTables(committed, connPending[c])
                       ELSE committed
       /\ connPending' = [connPending EXCEPT ![c] = EmptyTables]
       /\ connTxn' = [connTxn EXCEPT ![c] = "none"]
       /\ idle' = IF ok THEN PoolRelease(c) ELSE idle
       /\ pc' = [pc EXCEPT ![u] = IF ok THEN "resolved" ELSE "rollback"]
    /\ UNCHANGED <<client, lang, nChunks, chunkPc, processedChunks>>
    /\ UNCHANGED <<svars, tvars, kvars, gvars, rvars, fvars>>
    /\ UNCHANGED trvars

(* Mutant: no finally block, the client is released after a COMMIT only.   *)
Rollback_NoRelease(u, ok) ==
    /\ pc[u] = "rollback"
    /\ CallAllowed(ok)
    /\ faults' = IF ok THEN faults ELSE faults + 1
    /\ LET c == client[u] IN
       /\ connPending' = [connPending EXCEPT ![c] = EmptyTables]
       /\ connTxn' = [connTxn EXCEPT ![c] = "none"]
    /\ pc' = [pc EXCEPT ![u] = "rejected"]
    /\ UNCHANGED <<client, lang, nChunks, chunkPc, processedChunks,
                   committed, idle>>
    /\ UNCHANGED <<svars, tvars, kvars, gvars, rvars, fvars>>
    /\ UNCHANGED trvars

(* catch: await client.query('ROLLBACK'); throw; finally client.release(). *)
(* The ROLLBACK ends the transaction; when it fails (the connection is     *)
(* lost) the server drops the transaction with the session, its error      *)
(* replaces the original one, and the finally block releases the client    *)
(* all the same.                                                           *)
Rollback(u, ok) ==
    /\ pc[u] = "rollback"
    /\ CallAllowed(ok)
    /\ faults' = IF ok THEN faults ELSE faults + 1
    /\ LET c == client[u] IN
       /\ connPending' = [connPending EXCEPT ![c] = EmptyTables]
       /\ connTxn' = [connTxn EXCEPT ![c] = "none"]
       /\ idle' = PoolRelease(c)
    /\ pc' = [pc EXCEPT ![u] = "rejected"]
    /\ UNCHANGED <<client, lang, nChunks, chunkPc, processedChunks,
                   committed>>
    /\ UNCHANGED <<svars, tvars, kvars, gvars, rvars, fvars>>
    /\ UNCHANGED trvars

(* ---------------- processDocumentWithChunking (callback) --------------- *)
(* translateToEnglishPreservingTechnicalTerms(sample): never throws.       *)
TranslateSample(u) ==
    /\ u \in Docs /\ pc[u] = "translateSample"
    /\ pc' = [pc EXCEPT ![u] = "insertDoc"]
    /\ UNCHANGED <<client, lang, nChunks, chunkPc, processedChunks, idle,
                   connTxn, connPending, committed, faults>>
    /\ UNCHANGED <<svars, tvars, kvars, gvars, rvars, fvars>>
    /\ UNCHANGED trvars

(* Position of a chunk task at its first await.                            *)
ChunkEntry(u) == IF lang[u] # "en" THEN "translate" ELSE "embed"

(* INSERT INTO documentation_embeddings (... total_chunks = 0); then       *)
(* splitTextIntoChunks and chunks.map(async ...) start every chunk task,   *)
(* and the callback awaits Promise.all(chunkPromises), which resolves at   *)
(* once when there is no chunk (blank document).                           *)
InsertDoc(u, ok) ==
    /\ u \in Docs /\ pc[u] = "insertDoc"
    /\ ExecInsert(client[u], ok, "documentation_embeddings", DocRow(u))
    /\ pc' = [pc EXCEPT ![u] = IF ~ok THEN "rollback"
                               ELSE IF nChunks[u] = 0 THEN "update" ELSE "await"]
    /\ chunkPc' = IF ok
                  THEN [chunkPc EXCEPT ![u] =
                           [k \in ChunkIdx |->
                               IF k < nChunks[u] THEN ChunkEntry(u) ELSE "none"]]
                  ELSE chunkPc
    /\ UNCHANGED <<client, lang, nChunks, processedChunks, idle>>
    /\ UNCHANGED <<svars, tvars, kvars, gvars, rvars, fvars>>
    /\ UNCHANGED trvars

(* Mutant: Promise.allSettled in place of Promise.all: the callback goes   *)
(* on to the UPDATE once every chunk task has settled, failed or not.      *)
AfterChunk_AllSettled(u, k, chunkState) ==
    IF pc[u] # "await" THEN pc[u]
    ELSE IF \A j \in ChunkIdx :
                (j < nChunks[u] /\ j # k) => chunkPc[u][j] \in {"done", "failed"}
         THEN "update"
         ELSE "await"

(* Promise.all: rejects at the first chunk task that rejects, resolves     *)
(* when every chunk task has resolved; later settlements are ignored.      *)
AfterChunk(u, k, chunkState) ==
    IF pc[u] # "await" THEN pc[u]
    ELSE IF chunkState = "failed" THEN "rollback"
    ELSE IF \A j \in ChunkIdx :
                (j < nChunks[u] /\ j # k) => chunkPc[u][j] = "done"
         THEN "update"
         ELSE "await"

(* chunk task: await translateToEnglishPreservingTechnicalTerms(chunk),    *)
(* chunkToSave = info.translatedText, cleanTextForEmbedding(chunkToSave):  *)
(* on undefined the .replace call throws and the chunk task rejects.       *)
ChunkTranslate(u, k, answer) ==
    /\ u \in Docs /\ chunkPc[u][k] = "translate"
    /\ LET info == translateToEnglishPreservingTechnicalTerms(Content, lang[u], answer)
           thrown == info.translatedText = Undefined
       IN /\ chunkTranslationInfo' = [chunkTranslationInfo EXCEPT ![u][k] = info]
          /\ chunkPc' = [chunkPc EXCEPT ![u][k] = IF thrown THEN "failed" ELSE "embed"]
          /\ pc' = [pc EXCEPT ![u] = IF thrown THEN AfterChunk(u, k, "failed") ELSE pc[u]]
    /\ UNCHANGED <<client, lang, nChunks, processedChunks, idle,
                   connTxn, connPending, committed, faults>>
    /\ UNCHANGED translationInfo
    /\ UNCHANGED <<svars, tvars, kvars, gvars, rvars, fvars>>

(* chunk task: await generateEmbedding(cleanChunk); a failure is rethrown. *)
ChunkEmbed(u, k, ok) ==
    /\ u \in Docs /\ chunkPc[u][k] = "embed"
    /\ CallAllowed(ok)
    /\ faults' = IF ok THEN faults ELSE faults + 1
    /\ chunkPc' = [chunkPc EXCEPT ![u][k] = IF ok THEN "insert" ELSE "failed"]
    /\ pc' = [pc EXCEPT ![u] = IF ok THEN pc[u] ELSE AfterChunk(u, k, "failed")]
    /\ UNCHANGED <<client, lang, nChunks, processedChunks, idle,
                   connTxn, connPending, committed>>
    /\ UNCHANGED trvars
    /\ UNCHANGED <<svars, tvars, kvars, gvars, rvars, fvars>>

(* chunk task: await client.query(INSERT INTO embeddings_base ...) on the  *)
(* client captured by the closure, whatever has become of it meanwhile;    *)
(* then processedChunks++.                                                 *)
ChunkInsert(u, k, ok) ==
    /\ u \in Docs /\ chunkPc[u][k] = "insert"
    /\ ExecInsert(client[u], ok, "embeddings_base", ChunkRow(u, k))
    /\ chunkPc' = [chunkPc EXCEPT ![u][k] = IF ok THEN "done" ELSE "failed"]
    /\ processedChunks' = IF ok
                          THEN [processedChunks EXCEPT ![u] = @ + 1]
                          ELSE processedChunks
    /\ pc' = [pc EXCEPT ![u] = AfterChunk(u, k, IF ok THEN "done" ELSE "failed")]
    /\ UNCHANGED <<client, lang, nChunks, idle>>
    /\ UNCHANGED <<svars, tvars, kvars, gvars, rvars, fvars>>
    /\ UNCHANGED trvars

(* await client.query('UPDATE documentation_embeddings SET total_chunks')  *)
UpdateTotal(u, ok) ==
    /\ u \in Docs /\ pc[u] = "update"
    /\ ExecUpdateTotal(client[u], ok, u, nChunks[u])
    /\ pc' = [pc EXCEPT ![u] = IF ok THEN "commit" ELSE "rollback"]
    /\ UNCHANGED <<client, lang, nChunks, chunkPc, processedChunks, idle>>
    /\ UNCHANGED <<svars, tvars, kvars, gvars, rvars, fvars>>
    /\ UNCHANGED trvars

(* ----------------------- saveUserPrompt (callback) --------------------- *)
(* await translateToEnglishPreservingTechnicalTerms(promptText),           *)
(* contentToSave = info.translatedText, cleanTextForEmbedding(...): on     *)
(* undefined the .replace call throws inside the callback.                 *)
PromptTranslate(u, answer) ==
    /\ u \in Prompts /\ pc[u] = "translate"
    /\ LET info == translateToEnglishPreservingTechnicalTerms(Content, lang[u], answer)
       IN /\ translationInfo' = [translationInfo EXCEPT ![u] = info]
          /\ pc' = [pc EXCEPT ![u] = IF info.translatedText = Undefined
                                     THEN "rollback" ELSE "embed"]
    /\ UNCHANGED <<client, lang, nChunks, chunkPc, processedChunks, idle,
                   connTxn, connPending, committed, faults>>
    /\ UNCHANGED chunkTranslationInfo
    /\ UNCHANGED <<svars, tvars, kvars, gvars, rvars, fvars>>

(* await generateEmbedding(cleanContent)                                   *)
PromptEmbed(u, ok) ==
    /\ u \in Prompts /\ pc[u] = "embed"
    /\ CallAllowed(ok)
    /\ faults' = IF ok THEN faults ELSE faults + 1
    /\ pc' = [pc EXCEPT ![u] = IF ok THEN "insertEmbedding" ELSE "rollback"]
    /\ UNCHANGED <<client, lang, nChunks, chunkPc, processedChunks, idle,
                   connTxn, connPending, committed>>
    /\ UNCHANGED trvars
    /\ UNCHANGED <<svars, tvars, kvars, gvars, rvars, fvars>>

(* Mutant: the embeddings_base insert goes through the pool-level query()  *)
(* (as saveEmbedding does) instead of the transaction's client.            *)
PromptInsertEmbedding_ViaPool(u, ok) ==
    /\ u \in Prompts /\ pc[u] = "insertEmbedding"
    /\ CallAllowed(ok)
    /\ faults' = IF ok THEN faults ELSE faults + 1
    /\ committed' = IF ok
                    THEN AddRow(committed, "embeddings_base", PromptEmbeddingRow(u))
                    ELSE committed
    /\ pc' = [pc EXCEPT ![u] = IF ok THEN "insertPrompt" ELSE "rollback"]
    /\ UNCHANGED <<client, lang, nChunks, chunkPc, processedChunks, idle,
                   connTxn, connPending>>
    /\ UNCHANGED <<svars, tvars, kvars, gvars, rvars, fvars>>
    /\ UNCHANGED trvars

(* await client.query(INSERT INTO embeddings_base ... 'prompt')            *)
PromptInsertEmbedding(u, ok) ==
    /\ u \in Prompts /\ pc[u] = "insertEmbedding"
    /\ ExecInsert(client[u], ok, "embeddings_base", PromptEmbeddingRow(u))
    /\ pc' = [pc EXCEPT ![u] = IF ok THEN "insertPrompt" ELSE "rollback"]
    /\ UNCHANGED <<client, lang, nChunks, chunkPc, processedChunks, idle>>
    /\ UNCHANGED <<svars, tvars, kvars, gvars, rvars, fvars>>
    /\ UNCHANGED trvars

(* await client.query(INSERT INTO user_prompts (embedding_id, ...))        *)
PromptInsertPrompt(u, ok) ==
    /\ u \in Prompts /\ pc[u] = "insertPrompt"
    /\ ExecInsert(client[u], ok, "user_prompts", PromptRow(u))
    /\ pc' = [pc EXCEPT ![u] = IF ok THEN "commit" ELSE "rollback"]
    /\ UNCHANGED <<client, lang, nChunks, chunkPc, processedChunks, idle>>
    /\ UNCHANGED <<svars, tvars, kvars, gvars, rvars, fvars>>
    /\ UNCHANGED trvars

(* ------------------------------ saveEmbedding -------------------------- *)
(* saveEmbedding(content, contentType, metadata, language) is called: it   *)
(* translates when language is set and is not 'en'.                        *)
StartSave(u, l) ==
    /\ u \in Saves /\ pc[u] = "idle"
    /\ lang' = [lang EXCEPT ![u] = l]
    /\ pc' = [pc EXCEPT ![u] = IF l # "en" THEN "translate" ELSE "embed"]
    /\ UNCHANGED <<client, nChunks, chunkPc, processedChunks, idle, connTxn,
                   connPending, committed, faults>>
    /\ UNCHANGED <<svars, tvars, kvars, gvars, rvars, fvars>>
    /\ UNCHANGED trvars

(* await translateToEnglishPreservingTechnicalTerms(content, language),    *)
(* contentToSave = info.translatedText, cleanTextForEmbedding(...): on     *)
(* undefined the .replace call throws, the catch block rethrows.           *)
SaveTranslate(u, answer) ==
    /\ u \in Saves /\ pc[u] = "translate"
    /\ LET info == translateToEnglishPreservingTechnicalTerms(Content, lang[u], answer)
       IN /\ translationInfo' = [translationInfo EXCEPT ![u] = info]
          /\ pc' = [pc EXCEPT ![u] = IF info.translatedText = Undefined
                                     THEN "rejected" ELSE "embed"]
    /\ UNCHANGED <<client, lang, nChunks, chunkPc, processedChunks, idle,
                   connTxn, connPending, committed, faults>>
    /\ UNCHANGED chunkTranslationInfo
    /\ UNCHANGED <<svars, tvars, kvars, gvars, rvars, fvars>>

(* await generateEmbedding(cleanContent): a failure is rethrown.           *)
SaveEmbed(u, ok) ==
    /\ u \in Saves /\ pc[u] = "embed"
    /\ CallAllowed(ok)
    /\ faults' = IF ok THEN faults ELSE faults + 1
    /\ pc' = [pc EXCEPT ![u] = IF ok THEN "insert" ELSE "rejected"]
    /\ UNCHANGED <<client, lang, nChunks, chunkPc, processedChunks, idle,
                   connTxn, connPending, committed>>
    /\ UNCHANGED trvars
    /\ UNCHANGED <<svars, tvars, kvars, gvars, rvars, fvars>>

(* await query(INSERT INTO embeddings_base ...): pool.query takes an idle  *)
(* client, runs the statement on it outside any transaction and releases   *)
(* it.                                                                     *)
SaveInsert(u, ok) ==
    /\ u \in Saves /\ pc[u] = "insert"
    /\ Len(idle) > 0
    /\ ExecInsert(PoolPop, ok, "embeddings_base", SaveRow(u))
    /\ pc' = [pc EXCEPT ![u] = IF ok THEN "resolved" ELSE "rejected"]
    /\ UNCHANGED <<client, lang, nChunks, chunkPc, processedChunks, idle>>
    /\ UNCHANGED <<svars, tvars, kvars, gvars, rvars, fvars>>
    /\ UNCHANGED trvars

(* pool.query rejects after connectionTimeoutMillis when no client is free. *)
SaveInsertTimeout(u) ==
    /\ u \in Saves /\ pc[u] = "insert"
    /\ Len(idle) = 0
    /\ pc' = [pc EXCEPT ![u] = "rejected"]
    /\ UNCHANGED <<client, lang, nChunks, chunkPc, processedChunks, idle,
                   connTxn, connPending, committed, faults>>
    /\ UNCHANGED <<svars, tvars, kvars, gvars, rvars, fvars>>
    /\ UNCHANGED trvars

InitSearchIdle ==
    /\ searchRows = <<>>
    /\ spc = "off"
    /\ sargs = <<>>
    /\ callLog = <<>>
    /\ attempts = <<>>
    /\ results = <<>>
    /\ usedThreshold = 0

Init ==
    /\ InitPersistence /\ InitSearchIdle /\ InitTranslateIdle /\ InitChunkIdle
    /\ InitReadIdle /\ InitRouteIdle /\ InitFilesIdle

Next ==
    \/ \E u \in Docs, n \in 0..MaxChunks, l \in Languages : StartIngest(u, n, l)
    \/ \E u \in Prompts, l \in Languages : StartPrompt(u, l)
    \/ \E u \in Units : Connect(u)
    \/ \E u \in Units : ConnectTimeout(u)
    \/ \E u \in Units, ok \in BOOLEAN : Begin(u, ok)
    \/ \E u \in Units, ok \in BOOLEAN : Commit(u, ok)
    \/ \E u \in Units : Rollback(u, TRUE)
    \/ \E u \in Docs : TranslateSample(u)
    \/ \E u \in Docs, ok \in BOOLEAN : InsertDoc(u, ok)
    \/ \E u \in Docs, k \in ChunkIdx, a \in TranslatedAnswers : ChunkTranslate(u, k, a)
    \/ \E u \in Docs, k \in ChunkIdx, ok \in BOOLEAN : ChunkEmbed(u, k, ok)
    \/ \E u \in Docs, k \in ChunkIdx, ok \in BOOLEAN : ChunkInsert(u, k, ok)
    \/ \E u \in Docs, ok \in BOOLEAN : UpdateTotal(u, ok)
    \/ \E u \in Prompts, a \in TranslatedAnswers : PromptTranslate(u, a)
    \/ \E u \in Prompts, ok \in BOOLEAN : PromptEmbed(u, ok)
    \/ \E u \in Prompts, ok \in BOOLEAN : PromptInsertEmbedding(u, ok)
    \/ \E u \in Prompts, ok \in BOOLEAN : PromptInsertPrompt(u, ok)

Spec == Init /\ [][Next]_vars

(* The three entry points side by side, against every kind of translator   *)
(* answer and failing embedding calls, over a database that answers every  *)
(* statement: saveEmbedding, saveUserPrompt and                            *)
(* processDocumentWithChunking. The transactional units are as many as the *)
(* pool has clients, so pool.connect() never waits.                        *)
SaveDocs == 1..(PoolSize - NumPrompts)
DatabaseUp == {TRUE}

NextSave ==
    \/ \E u \in SaveDocs, n \in 0..MaxChunks, l \in Languages : StartIngest(u, n, l)
    \/ \E u \in Prompts, l \in Languages : StartPrompt(u, l)
    \/ \E u \in Saves, l \in Languages : StartSave(u, l)
    \/ \E u \in Units : Connect(u)
    \/ \E u \in Units, ok \in DatabaseUp : Begin(u, ok)
    \/ \E u \in Units, ok \in DatabaseUp : Commit(u, ok)
    \/ \E u \in Units, ok \in DatabaseUp : Rollback(u, ok)
    \/ \E u \in Docs : TranslateSample(u)
    \/ \E u \in Docs, ok \in DatabaseUp : InsertDoc(u, ok)
    \/ \E u \in Docs, k \in ChunkIdx, a \in UnitAnswers : ChunkTranslate(u, k, a)
    \/ \E u \in Docs, k \in ChunkIdx, ok \in BOOLEAN : ChunkEmbed(u, k, ok)
    \/ \E u \in Docs, k \in ChunkIdx, ok \in DatabaseUp : ChunkInsert(u, k, ok)
    \/ \E u \in Docs, ok \in DatabaseUp : UpdateTotal(u, ok)
    \/ \E u \in Prompts, a \in UnitAnswers : PromptTranslate(u, a)
    \/ \E u \in Prompts, ok \in BOOLEAN : PromptEmbed(u, ok)
    \/ \E u \in Prompts, ok \in DatabaseUp : PromptInsertEmbedding(u, ok)
    \/ \E u \in Prompts, ok \in DatabaseUp : PromptInsertPrompt(u, ok)
    \/ \E u \in Saves, a \in UnitAnswers : SaveTranslate(u, a)
    \/ \E u \in Saves, ok \in BOOLEAN : SaveEmbed(u, ok)
    \/ \E u \in Saves, ok \in DatabaseUp : SaveInsert(u, ok)
    \/ \E u \in Saves : SaveInsertTimeout(u)

SpecSave == Init /\ [][NextSave]_vars

(* transaction() on every path it has: one processDocumentWithChunking and *)
(* one saveUserPrompt over a database any statement of which can fail,     *)
(* BEGIN, COMMIT and ROLLBACK included.                                    *)
NextTxn ==
    \/ \E u \in SaveDocs, n \in 0..MaxChunks, l \in Languages : StartIngest(u, n, l)
    \/ \E u \in Prompts, l \in Languages : StartPrompt(u, l)
    \/ \E u \in Units : Connect(u)
    \/ \E u \in Units, ok \in BOOLEAN : Begin(u, ok)
    \/ \E u \in Units, ok \in BOOLEAN : Commit(u, ok)
    \/ \E u \in Units, ok \in BOOLEAN : Rollback(u, ok)
    \/ \E u \in Docs : TranslateSample(u)
    \/ \E u \in Docs, ok \in BOOLEAN : InsertDoc(u, ok)
    \/ \E u \in Docs, k \in ChunkIdx, a \in TranslatedAnswers : ChunkTranslate(u, k, a)
    \/ \E u \in Docs, k \in ChunkIdx, ok \in BOOLEAN : ChunkEmbed(u, k, ok)
    \/ \E u \in Docs, k \in ChunkIdx, ok \in BOOLEAN : ChunkInsert(u, k, ok)
    \/ \E u \in Docs, ok \in BOOLEAN : UpdateTotal(u, ok)
    \/ \E u \in Prompts, a \in TranslatedAnswers : PromptTranslate(u, a)
    \/ \E u \in Prompts, ok \in BOOLEAN : PromptEmbed(u, ok)
    \/ \E u \in Prompts, ok \in BOOLEAN : PromptInsertEmbedding(u, ok)
    \/ \E u \in Prompts, ok \in BOOLEAN : PromptInsertPrompt(u, ok)

SpecTxn == Init /\ [][NextTxn]_vars

(* One translator call with arguments and model answer drawn from bounded  *)
(* sets.                                                                   *)
InitTranslate ==
    /\ InitPersistence /\ InitSearchIdle /\ InitChunkIdle
    /\ InitReadIdle /\ InitRouteIdle /\ InitFilesIdle
    /\ tpc = "idle"
    /\ targs = NoArgs
    /\ tanswer = NoAnswer
    /\ tresult = NoTranslation

NextTranslate ==
    \/ \E text \in Texts, l \in SourceLanguages : CallTranslate(text, l)
    \/ \E answer \in ModelAnswers : ReturnTranslate(answer)

SpecTranslate == InitTranslate /\ [][NextTranslate]_vars

(* One chunker call with text, arguments and environment drawn from        *)
(* bounded sets.                                                           *)
InitChunk ==
    /\ InitPersistence /\ InitSearchIdle /\ InitTranslateIdle
    /\ InitReadIdle /\ InitRouteIdle /\ InitFilesIdle
    /\ kpc = "idle"
    /\ kargs = NoChunkArgs
    /\ ki = 0
    /\ kiter = 0
    /\ chunks = <<>>

NextChunk ==
    \/ \E text \in ChunkTexts, m \in MaxWordsArgs, o \in OverlapArgs,
          em \in EnvMaxWords, eo \in EnvOverlapWords : CallSplit(text, m, o, em, eo)
    \/ LoopStep
    \/ LoopExit

SpecChunk == InitChunk /\ [][NextChunk]_vars

(* ============================== search ================================ *)
MaxRecords == 2
MaxLimit == 2
One == 10
Distances == {0, 8, 10, 13, 20, 26}
ContentTypes == {"prompt", "documentation"}
NoFilter == "null"
ContentTypeFilters == {NoFilter, "documentation"}
SearchLanguages == {"en", "auto", "pt"}
FixedThresholds == {8, 15, 25}
MaxDistances == {8, 10, 25}
Limits == 1..MaxLimit
DefaultMaxDistance == 8
NullThreshold == 0
thresholds == <<10, 15, 20, 25>>

(* embeddings_base in physical order; distance is the distance from the    *)
(* query vector under the operator of the query that runs (<-> in          *)
(* searchSimilar, <=> in searchWithProgressiveThreshold).                  *)
Stores ==
    UNION {{[i \in 1..n |-> [id |-> i, content_type |-> f[i].t, distance |-> f[i].d]] :
               f \in [1..n -> [t : ContentTypes, d : Distances]]} :
           n \in 0..MaxRecords}

InitSearch ==
    /\ InitPersistence
    /\ InitTranslateIdle
    /\ InitChunkIdle
    /\ InitReadIdle /\ InitRouteIdle /\ InitFilesIdle
    /\ searchRows \in Stores
    /\ spc = "idle"
    /\ sargs = <<>>
    /\ callLog = <<>>
    /\ attempts = <<>>
    /\ results = <<>>
    /\ usedThreshold = NullThreshold

(* Mutant: the AND content_type = $n clause is never appended.             *)
WhereWithin_AnyType(rows, bound, contentType) ==
    SelectSeq(rows, LAMBDA r : r.distance <= bound)

(* WHERE distance <= $2 [AND content_type = $3]                            *)
WhereWithin(rows, bound, contentType) ==
    SelectSeq(rows, LAMBDA r : /\ r.distance <= bound
                               /\ (contentType = NoFilter \/ r.content_type = contentType))

(* ORDER BY distance ASC: rows of equal distance keep their scan order.    *)
RECURSIVE InsertByDistance(_, _)
InsertByDistance(sorted, r) ==
    IF sorted = <<>> THEN <<r>>
    ELSE IF Head(sorted).distance <= r.distance
         THEN <<Head(sorted)>> \o InsertByDistance(Tail(sorted), r)
         ELSE <<r>> \o sorted

RECURSIVE SortFrom(_, _)
SortFrom(rows, sorted) ==
    IF rows = <<>> THEN sorted
    ELSE SortFrom(Tail(rows), InsertByDistance(sorted, Head(rows)))

(* Mutant: the ORDER BY clause is missing, rows come in scan order.        *)
OrderByDistance_ScanOrder(rows) == rows

OrderByDistance(rows) == SortFrom(rows, <<>>)

(* LIMIT $n                                                                *)
LimitTo(rows, n) == SubSeq(rows, 1, Min(n, Len(rows)))

(* Mutant: similarity without the clamp at zero.                           *)
Similarity_NoClamp(distance) == One - distance

(* Math.max(0, 1 - parseFloat(row.distance))                               *)
Similarity(distance) == Max(0, One - distance)

(* result.rows.map(row => ({id, ..., distance, similarity, ...}))          *)
ToResults(rows) ==
    [i \in 1..Len(rows) |->
        [id |-> rows[i].id, contentType |-> rows[i].content_type,
         distance |-> rows[i].distance,
         similarity |-> Similarity(rows[i].distance)]]

(* Mutant: searchSimilar also applies the 0.8 ceiling of the progressive   *)
(* search.                                                                 *)
FixedSelect_WithCeiling(rows, threshold, contentType, limit) ==
    LimitTo(OrderByDistance(
                WhereWithin(WhereWithin(rows, threshold, contentType),
                            DefaultMaxDistance, contentType)), limit)

(* The SELECT of searchSimilar.                                            *)
FixedSelect(rows, threshold, contentType, limit) ==
    LimitTo(OrderByDistance(WhereWithin(rows, threshold, contentType)), limit)

(* Mutant: the AND distance <= $3 ceiling is missing from the SELECT.      *)
ProgressiveSelect_NoCeiling(rows, threshold, maxDistance, contentType, limit) ==
    LimitTo(OrderByDistance(WhereWithin(rows, threshold, contentType)), limit)

(* The SELECT of one attempt of searchWithProgressiveThreshold:            *)
(* WHERE distance <= $2 AND distance <= $3.                                *)
ProgressiveSelect(rows, threshold, maxDistance, contentType, limit) ==
    LimitTo(OrderByDistance(
                WhereWithin(WhereWithin(rows, threshold, contentType),
                            maxDistance, contentType)), limit)

SearchFrame == UNCHANGED <<pvars, tvars, kvars, gvars, rvars, fvars>>

(* searchSimilar(searchText, contentType, limit, threshold) called         *)
(* directly (GET /search-simple): no translation.                          *)
StartSimilar(threshold, limit, contentType) ==
    /\ spc = "idle"
    /\ sargs' = [mode |-> "fixed", threshold |-> threshold, limit |-> limit,
                 contentType |-> contentType, language |-> "en",
                 maxDistance |-> DefaultMaxDistance]
    /\ spc' = "embed"
    /\ UNCHANGED <<searchRows, callLog, attempts, results, usedThreshold>>
    /\ SearchFrame

(* searchSimilarWithTranslation(..., language): translates the query       *)
(* unless language is 'en', then calls searchSimilar.                      *)
StartSimilarWithTranslation(threshold, limit, contentType, language) ==
    /\ spc = "idle"
    /\ sargs' = [mode |-> "fixed", threshold |-> threshold, limit |-> limit,
                 contentType |-> contentType, language |-> language,
                 maxDistance |-> DefaultMaxDistance]
    /\ spc' = IF language # "en" THEN "translate" ELSE "embed"
    /\ UNCHANGED <<searchRows, callLog, attempts, results, usedThreshold>>
    /\ SearchFrame

(* searchWithProgressiveThreshold(..., language, maxDistance): translates  *)
(* unless language is 'en' or 'auto'.                                      *)
StartProgressive(limit, contentType, language, maxDistance) ==
    /\ spc = "idle"
    /\ sargs' = [mode |-> "progressive", threshold |-> NullThreshold,
                 limit |-> limit, contentType |-> contentType,
                 language |-> language, maxDistance |-> maxDistance]
    /\ spc' = IF language # "en" /\ language # "auto" THEN "translate" ELSE "embed"
    /\ UNCHANGED <<searchRows, callLog, attempts, results, usedThreshold>>
    /\ SearchFrame

(* await translateToEnglishPreservingTechnicalTerms(searchText, language)  *)
SearchTranslate ==
    /\ spc = "translate"
    /\ callLog' = Append(callLog, "translate")
    /\ spc' = "embed"
    /\ UNCHANGED <<searchRows, sargs, attempts, results, usedThreshold>>
    /\ SearchFrame

(* await generateEmbedding(cleanSearch): a failure rejects the search.     *)
SearchEmbed(ok) ==
    /\ spc = "embed"
    /\ callLog' = Append(callLog, "embed")
    /\ spc' = IF ok THEN "query" ELSE "rejected"
    /\ UNCHANGED <<searchRows, sargs, attempts, results, usedThreshold>>
    /\ SearchFrame

(* searchSimilar: await query(queryText, params); return rows.map(...)     *)
FixedQuery(ok) ==
    /\ spc = "query" /\ sargs.mode = "fixed"
    /\ callLog' = Append(callLog, "query")
    /\ results' = IF ok
                  THEN ToResults(FixedSelect(searchRows, sargs.threshold,
                                             sargs.contentType, sargs.limit))
                  ELSE results
    /\ spc' = IF ok THEN "done" ELSE "rejected"
    /\ UNCHANGED <<searchRows, sargs, attempts, usedThreshold>>
    /\ SearchFrame

(* Mutant: the embedding is generated again before every attempt.          *)
ProgressiveQuery_Reembed(ok) ==
    /\ spc = "query" /\ sargs.mode = "progressive"
    /\ LET threshold == thresholds[Len(attempts) + 1]
           rows == ProgressiveSelect(searchRows, threshold, sargs.maxDistance,
                                     sargs.contentType, sargs.limit)
           last == Len(attempts) + 1 = Len(thresholds)
       IN /\ callLog' = callLog \o <<"embed", "query">>
          /\ attempts' = IF ok THEN Append(attempts, [threshold |-> threshold, rows |-> rows])
                         ELSE attempts
          /\ results' = IF ok /\ Len(rows) > 0 THEN ToResults(rows) ELSE results
          /\ usedThreshold' = IF ok /\ Len(rows) > 0 THEN threshold ELSE usedThreshold
          /\ spc' = IF ~ok THEN "rejected"
                    ELSE IF Len(rows) > 0 \/ last THEN "done" ELSE "query"
    /\ UNCHANGED <<searchRows, sargs>>
    /\ SearchFrame

(* Mutant: the loop has no break, every threshold is tried and the last    *)
(* non-empty attempt wins.                                                 *)
ProgressiveQuery_NoBreak(ok) ==
    /\ spc = "query" /\ sargs.mode = "progressive"
    /\ LET threshold == thresholds[Len(attempts) + 1]
           rows == ProgressiveSelect(searchRows, threshold, sargs.maxDistance,
                                     sargs.contentType, sargs.limit)
           last == Len(attempts) + 1 = Len(thresholds)
       IN /\ callLog' = Append(callLog, "query")
          /\ attempts' = IF ok THEN Append(attempts, [threshold |-> threshold, rows |-> rows])
                         ELSE attempts
          /\ results' = IF ok /\ Len(rows) > 0 THEN ToResults(rows) ELSE results
          /\ usedThreshold' = IF ok /\ Len(rows) > 0 THEN threshold ELSE usedThreshold
          /\ spc' = IF ~ok THEN "rejected"
                    ELSE IF last THEN "done" ELSE "query"
    /\ UNCHANGED <<searchRows, sargs>>
    /\ SearchFrame

(* One iteration of for (const threshold of thresholds): the store query   *)
(* with the embedding computed before the loop; a non-empty result sets    *)
(* results and usedThreshold and breaks; after the loop the function       *)
(* returns results.map(...).                                               *)
ProgressiveQuery(ok) ==
    /\ spc = "query" /\ sargs.mode = "progressive"
    /\ LET threshold == thresholds[Len(attempts) + 1]
           rows == ProgressiveSelect(searchRows, threshold, sargs.maxDistance,
                                     sargs.contentType, sargs.limit)
           last == Len(attempts) + 1 = Len(thresholds)
       IN /\ callLog' = Append(callLog, "query")
          /\ attempts' = IF ok THEN Append(attempts, [threshold |-> threshold, rows |-> rows])
                         ELSE attempts
          /\ results' = IF ok /\ Len(rows) > 0 THEN ToResults(rows) ELSE results
          /\ usedThreshold' = IF ok /\ Len(rows) > 0 THEN threshold ELSE usedThreshold
          /\ spc' = IF ~ok THEN "rejected"
                    ELSE IF Len(rows) > 0 \/ last THEN "done" ELSE "query"
    /\ UNCHANGED <<searchRows, sargs>>
    /\ SearchFrame

NextSearch ==
    \/ \E t \in FixedThresholds, n \in Limits, c \in ContentTypeFilters :
           StartSimilar(t, n, c)
    \/ \E t \in FixedThresholds, n \in Limits, c \in ContentTypeFilters,
          l \in SearchLanguages : StartSimilarWithTranslation(t, n, c, l)
    \/ \E n \in Limits, c \in ContentTypeFilters, l \in SearchLanguages,
          m \in MaxDistances : StartProgressive(n, c, l, m)
    \/ SearchTranslate
    \/ \E ok \in BOOLEAN : SearchEmbed(ok)
    \/ \E ok \in BOOLEAN : FixedQuery(ok)
    \/ \E ok \in BOOLEAN : ProgressiveQuery(ok)

SpecSearch == InitSearch /\ [][NextSearch]_vars

(* ======================= reads of the store ============================ *)
(* The rows of embeddings_base in physical order, as a sequence.           *)
RowKey(r) == r.unit * MaxChunks + r.chunk_index

ScanOrder(rows) ==
    LET present == SelectSeq([i \in 1..((NumDocs + NumPrompts + NumSaves + 1) * MaxChunks)
                                 |-> i],
                             LAMBDA key : \E r \in rows : RowKey(r) = key)
    IN [i \in 1..Len(present) |-> CHOOSE r \in rows : RowKey(r) = present[i]]

(* FROM embeddings_base, with the distance column of the SELECT:           *)
(* embedding <-> $1 (or <=> $1), the distance of a stored vector from the  *)
(* vector of the search text, a function of the stored vector alone.       *)
StoreScan(tables) ==
    LET rows == ScanOrder(tables.embeddings_base)
    IN [i \in 1..Len(rows) |->
           [id |-> RowKey(rows[i]), content_type |-> rows[i].content_type,
            distance |->
                IF rows[i].embedding = generateEmbedding(cleanTextForEmbedding(Content))
                THEN 8 ELSE 13]]

(* getDocumentChunks(documentId): await query(SELECT id, content,          *)
(* chunk_index, chunk_total, ... FROM embeddings_base WHERE document_id =  *)
(* $1 ORDER BY chunk_index ASC) on an idle client of the pool; return      *)
(* result.rows.map(...). A failure is logged and rethrown; pool.query      *)
(* rejects after connectionTimeoutMillis when no client is free.           *)
GetDocumentChunks(documentId, ok) ==
    /\ gpc = "idle"
    /\ gargs' = documentId
    /\ documentChunks' =
           IF ok /\ Len(idle) > 0
           THEN LET rows == {r \in committed.embeddings_base :
                                 r.document_id = documentId}
                    present == SelectSeq([i \in 1..MaxChunks |-> i - 1],
                                         LAMBDA k : \E r \in rows : r.chunk_index = k)
                IN [i \in 1..Len(present) |->
                       LET row == CHOOSE r \in rows : r.chunk_index = present[i]
                       IN [id |-> RowKey(row), content |-> row.content,
                           chunkIndex |-> row.chunk_index,
                           chunkTotal |-> row.chunk_total,
                           wasTranslated |-> row.was_translated]]
           ELSE documentChunks
    /\ gpc' = IF ok /\ Len(idle) > 0 THEN "done" ELSE "rejected"
    /\ UNCHANGED <<pvars, svars, tvars, kvars, rvars, fvars>>

(* searchSimilar's query(queryText, params) against the store the writers  *)
(* fill: the SELECT scans what is committed when it runs; pool.query       *)
(* rejects when no client is free.                                         *)
StoreFixedQuery(ok) ==
    /\ spc = "query" /\ sargs.mode = "fixed"
    /\ LET done == ok /\ Len(idle) > 0
       IN /\ callLog' = Append(callLog, "query")
          /\ searchRows' = IF done THEN StoreScan(committed) ELSE searchRows
          /\ results' = IF done
                        THEN ToResults(FixedSelect(StoreScan(committed),
                                                   sargs.threshold,
                                                   sargs.contentType, sargs.limit))
                        ELSE results
          /\ spc' = IF done THEN "done" ELSE "rejected"
    /\ UNCHANGED <<sargs, attempts, usedThreshold>>
    /\ SearchFrame

(* One iteration of the loop of searchWithProgressiveThreshold against the *)
(* store the writers fill.                                                 *)
StoreProgressiveQuery(ok) ==
    /\ spc = "query" /\ sargs.mode = "progressive"
    /\ LET threshold == thresholds[Len(attempts) + 1]
           rows == ProgressiveSelect(StoreScan(committed), threshold,
                                     sargs.maxDistance, sargs.contentType,
                                     sargs.limit)
           last == Len(attempts) + 1 = Len(thresholds)
           done == ok /\ Len(idle) > 0
       IN /\ callLog' = Append(callLog, "query")
          /\ searchRows' = IF done THEN StoreScan(committed) ELSE searchRows
          /\ attempts' = IF done THEN Append(attempts, [threshold |-> threshold, rows |-> rows])
                         ELSE attempts
          /\ results' = IF done /\ Len(rows) > 0 THEN ToResults(rows) ELSE results
          /\ usedThreshold' = IF done /\ Len(rows) > 0 THEN threshold ELSE usedThreshold
          /\ spc' = IF ~done THEN "rejected"
                    ELSE IF Len(rows) > 0 \/ last THEN "done" ELSE "query"
    /\ UNCHANGED sargs
    /\ SearchFrame

(* Writers and readers of one store side by side: one document ingest,    *)
(* one saveUserPrompt and one saveEmbedding of English content, with       *)
(* getDocumentChunks and the two searches (threshold 1.5, maxDistance 2.5, *)
(* no content type filter) reading what they commit.                       *)

InitStore ==
    /\ InitPersistence /\ InitTranslateIdle /\ InitChunkIdle
    /\ InitRouteIdle /\ InitFilesIdle
    /\ searchRows = <<>>
    /\ spc = "idle"
    /\ sargs = <<>>
    /\ callLog = <<>>
    /\ attempts = <<>>
    /\ results = <<>>
    /\ usedThreshold = NullThreshold
    /\ gpc = "idle"
    /\ gargs = 0
    /\ documentChunks = <<>>

NextStore ==
    \/ \E u \in SaveDocs, n \in 0..MaxChunks : StartIngest(u, n, "en")
    \/ \E u \in Prompts : StartPrompt(u, "en")
    \/ \E u \in Saves : StartSave(u, "en")
    \/ \E u \in Units : Connect(u)
    \/ \E u \in Units, ok \in DatabaseUp : Begin(u, ok)
    \/ \E u \in Units, ok \in DatabaseUp : Commit(u, ok)
    \/ \E u \in Units, ok \in DatabaseUp : Rollback(u, ok)
    \/ \E u \in Docs, ok \in DatabaseUp : InsertDoc(u, ok)
    \/ \E u \in Docs, k \in ChunkIdx, ok \in BOOLEAN : ChunkEmbed(u, k, ok)
    \/ \E u \in Docs, k \in ChunkIdx, ok \in DatabaseUp : ChunkInsert(u, k, ok)
    \/ \E u \in Docs, ok \in DatabaseUp : UpdateTotal(u, ok)
    \/ \E u \in Prompts, ok \in BOOLEAN : PromptEmbed(u, ok)
    \/ \E u \in Prompts, ok \in DatabaseUp : PromptInsertEmbedding(u, ok)
    \/ \E u \in Prompts, ok \in DatabaseUp : PromptInsertPrompt(u, ok)
    \/ \E u \in Saves, ok \in BOOLEAN : SaveEmbed(u, ok)
    \/ \E u \in Saves, ok \in DatabaseUp : SaveInsert(u, ok)
    \/ \E u \in Saves : SaveInsertTimeout(u)
    \/ \E d \in SaveDocs, ok \in DatabaseUp : GetDocumentChunks(d, ok)
    \/ \E t \in {15} : StartSimilar(t, MaxLimit, NoFilter)
    \/ \E m \in {25} : StartProgressive(MaxLimit, NoFilter, "en", m)
    \/ \E ok \in {TRUE} : SearchEmbed(ok)
    \/ \E ok \in DatabaseUp : StoreFixedQuery(ok)
    \/ \E ok \in DatabaseUp : StoreProgressiveQuery(ok)

SpecStore == InitStore /\ [][NextStore]_vars

(* ========================= project files =============================== *)
(* routes/projects.js comes in two versions of the router, each with its   *)
(* own GET, POST and DELETE /:id/files: the first ("A", lines 1-442)       *)
(* resolves the file path with path.resolve, the second ("B", lines        *)
(* 710-1359) with path.join. Strings are sequences of characters (the      *)
(* segment '..' is <<".", ".">>), a path is the sequence of its segments   *)
(* below the root.                                                         *)
NumRequests == 2

BASE_DIR == <<<<"b">>>>

(* The string of an absolute path: every segment after a separator.        *)
RECURSIVE PathString(_)
PathString(path) ==
    IF path = <<>> THEN <<>> ELSE <<"/">> \o Head(path) \o PathString(Tail(path))

(* String.prototype.startsWith                                             *)
startsWith(str, prefix) ==
    Len(str) >= Len(prefix) /\ SubSeq(str, 1, Len(prefix)) = prefix

(* Normalization of an absolute path: '..' removes the segment before it   *)
(* and is dropped at the root.                                             *)
RECURSIVE NormalizeFrom(_, _)
NormalizeFrom(done, rest) ==
    IF rest = <<>> THEN done
    ELSE IF Head(rest) = <<".", ".">>
         THEN NormalizeFrom(IF done = <<>> THEN <<>>
                            ELSE SubSeq(done, 1, Len(done) - 1), Tail(rest))
         ELSE NormalizeFrom(Append(done, Head(rest)), Tail(rest))

(* path.join(a, b): the two joined with a separator, then normalized; a    *)
(* leading separator of b does not restart the path.                       *)
PathJoin(base, filepath) == NormalizeFrom(<<>>, base \o filepath.segs)

(* path.resolve(a, b): an absolute b replaces a.                           *)
PathResolve(base, filepath) ==
    IF filepath.abs THEN NormalizeFrom(<<>>, filepath.segs)
    ELSE NormalizeFrom(<<>>, base \o filepath.segs)

RECURSIVE CommonLength(_, _)
CommonLength(a, b) ==
    IF a = <<>> \/ b = <<>> \/ Head(a) # Head(b) THEN 0
    ELSE 1 + CommonLength(Tail(a), Tail(b))

(* path.relative(from, to) of two absolute normalized paths, as a string.  *)
PathRelative(from, to) ==
    LET common == CommonLength(from, to)
        segs == [i \in 1..(Len(from) - common) |-> <<".", ".">>]
                    \o SubSeq(to, common + 1, Len(to))
    IN IF segs = <<>> THEN <<>> ELSE Tail(PathString(segs))

(* /^[a-zA-Z0-9_-]{1,64}$/.test(id)                                        *)
isValidProjectId(id) ==
    /\ Len(id) >= 1 /\ Len(id) <= 64
    /\ \A i \in 1..Len(id) : id[i] \in {"p", "q", "x"}

(* path.resolve(BASE_DIR, projectId), inside BASE_DIR for every valid id.  *)
resolveProjectPath(projectId) == BASE_DIR \o <<projectId>>

(* const rel = path.relative(base, target);                                *)
(* return !rel.startsWith('..') && !path.isAbsolute(rel)                   *)
isInsidePath(base, target) == ~startsWith(PathRelative(base, target), <<".", ".">>)

(* The sibling's file is on disk; the project's file is or is not.         *)
InitFiles ==
    /\ InitPersistence /\ InitSearchIdle /\ InitTranslateIdle /\ InitChunkIdle
    /\ InitReadIdle /\ InitRouteIdle
    /\ \E present \in SUBSET {BASE_DIR \o <<<<"p">>, <<"s">>>>} :
           files = [q \in present \cup {BASE_DIR \o <<<<"p", "q">>, <<"s">>>>}
                       |-> <<"content", 0>>]
    /\ fpc = [r \in 1..NumRequests |-> "idle"]
    /\ freq = [r \in 1..NumRequests |-> <<>>]
    /\ fstatus = [r \in 1..NumRequests |-> 0]
    /\ ftouched = [r \in 1..NumRequests |-> {}]

Respond(r, status) ==
    /\ fpc' = [fpc EXCEPT ![r] = "done"]
    /\ fstatus' = [fstatus EXCEPT ![r] = status]

(* The project directories that exist under BASE_DIR are p and its        *)
(* sibling pq.                                                             *)
(* A request arrives at a /:id/files route of the mounted router: 400 for  *)
(* an invalid id; 404 unless the project directory exists (POST of version *)
(* A and every route of version B; the others find no file later); 400     *)
(* when the path test fails; then the first file-system call on the path.  *)
(* Version A builds the path with path.resolve and tests it with           *)
(* isInsidePath in GET and POST and with                                   *)
(* targetPath.startsWith(projectPath + path.sep) in DELETE; version B      *)
(* builds it with path.join and tests fullFilePath.startsWith(projectPath) *)
(* and its POST has no overwrite option.                                   *)
Receive(r, version, method, id, filepath, overwrite) ==
    LET projectPath == resolveProjectPath(id)
        target == IF version = "A" THEN PathResolve(projectPath, filepath)
                  ELSE PathJoin(projectPath, filepath)
        accepted ==
            IF version = "B"
            THEN startsWith(PathString(target), PathString(projectPath))
            ELSE IF method = "DELETE"
            THEN startsWith(PathString(target), PathString(projectPath) \o <<"/">>)
            ELSE isInsidePath(projectPath, target)
    IN /\ fpc[r] = "idle"
       /\ \A q \in 1..NumRequests : freq[q] # <<>> => freq[q].version = version
       /\ version = "B" => overwrite
       /\ freq' = [freq EXCEPT ![r] =
                      [version |-> version, method |-> method, id |-> id,
                       filepath |-> filepath, overwrite |-> overwrite,
                       existed |-> FALSE,
                       target |-> IF isValidProjectId(id) THEN target ELSE <<>>]]
       /\ IF ~isValidProjectId(id) THEN Respond(r, 400)
          ELSE IF /\ version = "B" \/ method = "POST"
                  /\ projectPath \notin {resolveProjectPath(<<"p">>),
                                          resolveProjectPath(<<"p", "q">>)}
          THEN Respond(r, 404)
          ELSE IF ~accepted THEN Respond(r, 400)
          ELSE /\ fpc' = [fpc EXCEPT ![r] =
                             IF method # "POST" THEN "access"
                             ELSE IF version = "B" THEN "existed"
                             ELSE IF overwrite THEN "writeFile" ELSE "stat"]
               /\ UNCHANGED fstatus
       /\ UNCHANGED <<files, ftouched>>
       /\ UNCHANGED <<pvars, svars, tvars, kvars, gvars, rvars>>

(* POST of version A, overwrite = false: await fs.stat(targetPath); 409    *)
(* when the file exists.                                                   *)
PostStat(r) ==
    /\ fpc[r] = "stat"
    /\ IF freq[r].target \in DOMAIN files THEN Respond(r, 409)
       ELSE /\ fpc' = [fpc EXCEPT ![r] = "writeFile"]
            /\ UNCHANGED fstatus
    /\ UNCHANGED <<files, freq, ftouched>>
    /\ UNCHANGED <<pvars, svars, tvars, kvars, gvars, rvars>>

(* POST of version B: await fs.access(fullFilePath) sets existed.          *)
PostAccess(r) ==
    /\ fpc[r] = "existed"
    /\ freq' = [freq EXCEPT ![r].existed = freq[r].target \in DOMAIN files]
    /\ fpc' = [fpc EXCEPT ![r] = "writeFile"]
    /\ UNCHANGED <<files, fstatus, ftouched>>
    /\ UNCHANGED <<pvars, svars, tvars, kvars, gvars, rvars>>

(* POST: await fs.writeFile(path, content); version A answers 201, version *)
(* B 200 when the file existed and 201 otherwise.                          *)
PostWriteFile(r) ==
    /\ fpc[r] = "writeFile"
    /\ files' = [q \in DOMAIN files \cup {freq[r].target} |->
                    IF q = freq[r].target THEN <<"content", r>> ELSE files[q]]
    /\ ftouched' = [ftouched EXCEPT ![r] = @ \cup {freq[r].target}]
    /\ Respond(r, IF freq[r].existed THEN 200 ELSE 201)
    /\ UNCHANGED freq
    /\ UNCHANGED <<pvars, svars, tvars, kvars, gvars, rvars>>

(* GET and DELETE: await fs.stat(targetPath) (version A) or                *)
(* fs.access(fullFilePath) (version B); 404 when the file is missing.      *)
Access(r) ==
    /\ fpc[r] = "access"
    /\ IF freq[r].target \notin DOMAIN files THEN Respond(r, 404)
       ELSE /\ fpc' = [fpc EXCEPT ![r] =
                          IF freq[r].method = "GET" THEN "readFile" ELSE "unlink"]
            /\ UNCHANGED fstatus
    /\ UNCHANGED <<files, freq, ftouched>>
    /\ UNCHANGED <<pvars, svars, tvars, kvars, gvars, rvars>>

(* GET: await fs.readFile(path); the content is sent with 200. A file      *)
(* removed since the existence check makes readFile throw (next(err)).     *)
GetReadFile(r) ==
    /\ fpc[r] = "readFile"
    /\ IF freq[r].target \in DOMAIN files
       THEN /\ ftouched' = [ftouched EXCEPT ![r] = @ \cup {freq[r].target}]
            /\ Respond(r, 200)
       ELSE /\ UNCHANGED ftouched
            /\ Respond(r, 500)
    /\ UNCHANGED <<files, freq>>
    /\ UNCHANGED <<pvars, svars, tvars, kvars, gvars, rvars>>

(* DELETE: await fs.unlink(path); 200.                                     *)
DeleteUnlink(r) ==
    /\ fpc[r] = "unlink"
    /\ IF freq[r].target \in DOMAIN files
       THEN /\ files' = [q \in DOMAIN files \ {freq[r].target} |-> files[q]]
            /\ ftouched' = [ftouched EXCEPT ![r] = @ \cup {freq[r].target}]
            /\ Respond(r, 200)
       ELSE /\ UNCHANGED <<files, ftouched>>
            /\ Respond(r, 500)
    /\ UNCHANGED freq
    /\ UNCHANGED <<pvars, svars, tvars, kvars, gvars, rvars>>

(* The filepath of a request is a file of the project, the same file of   *)
(* the sibling reached relatively, a file above BASE_DIR, or the sibling's *)
(* file as an absolute path.                                               *)
NextFiles ==
    \/ \E r \in 1..NumRequests, v \in {"A", "B"}, m \in {"GET", "POST", "DELETE"},
          id \in {<<"p">>, <<"x">>, <<".", ".">>}, o \in BOOLEAN,
          f \in {[abs |-> FALSE, segs |-> <<<<"s">>>>],
                 [abs |-> FALSE, segs |-> <<<<".", ".">>, <<"p", "q">>, <<"s">>>>],
                 [abs |-> FALSE, segs |-> <<<<".", ".">>, <<".", ".">>, <<"s">>>>],
                 [abs |-> TRUE, segs |-> BASE_DIR \o <<<<"p", "q">>, <<"s">>>>]} :
           /\ (m # "POST" => o)
           /\ Receive(r, v, m, id, f, o)
    \/ \E r \in 1..NumRequests : PostStat(r)
    \/ \E r \in 1..NumRequests : PostAccess(r)
    \/ \E r \in 1..NumRequests : PostWriteFile(r)
    \/ \E r \in 1..NumRequests : Access(r)
    \/ \E r \in 1..NumRequests : GetReadFile(r)
    \/ \E r \in 1..NumRequests : DeleteUnlink(r)

SpecFiles == InitFiles /\ [][NextFiles]_vars

(* ===================== routes of the embeddings router ================= *)
(* Lengths are numbers of characters, thresholds are in tenths.            *)
(* generateEmbeddingSchema: content of 1..8000 characters, contentType one *)
(* of the four kinds.                                                      *)
generateEmbeddingSchema(req) ==
    /\ req.length >= 1 /\ req.length <= 8000
    /\ req.contentType \in {"prompt", "source_code", "template", "documentation"}

(* searchSchema: query of 1..1000 characters, contentType optional and one *)
(* of the four kinds, limit 1..50, threshold 0..3.                         *)
searchSchema(req) ==
    /\ req.length >= 1 /\ req.length <= 1000
    /\ req.contentType \in {NoFilter, "prompt", "source_code", "template", "documentation"}
    /\ req.limit >= 1 /\ req.limit <= 50
    /\ req.threshold >= 0 /\ req.threshold <= 30

InitRoute ==
    /\ InitPersistence /\ InitTranslateIdle /\ InitChunkIdle
    /\ InitReadIdle /\ InitFilesIdle
    /\ searchRows \in {st \in Stores : Len(st) = 1}
    /\ spc = "idle"
    /\ sargs = <<>>
    /\ callLog = <<>>
    /\ attempts = <<>>
    /\ results = <<>>
    /\ usedThreshold = NullThreshold
    /\ rpc = "idle"
    /\ rreq = <<>>
    /\ rstatus = 0

(* POST /generate: generateEmbeddingSchema.safeParse(req.body); 400 on     *)
(* failure, otherwise saveEmbedding is about to be called.                 *)
PostGenerate(length, contentType, language) ==
    LET req == [route |-> "generate", length |-> length,
                contentType |-> contentType, language |-> language,
                limit |-> 0, threshold |-> 0]
    IN /\ rpc = "idle"
       /\ rreq' = req
       /\ rpc' = IF generateEmbeddingSchema(req) THEN "call" ELSE "done"
       /\ rstatus' = IF generateEmbeddingSchema(req) THEN rstatus ELSE 400
       /\ UNCHANGED <<pvars, svars, tvars, kvars, gvars, fvars>>

(* GET /search: the handler's own checks (query present, limit 1..50,      *)
(* threshold 0..3); 400 on failure, otherwise searchSimilarWithTranslation *)
(* is about to be called. searchSchema is not applied.                     *)
GetSearch(length, contentType, limit, threshold, language) ==
    LET req == [route |-> "search", length |-> length,
                contentType |-> contentType, language |-> language,
                limit |-> limit, threshold |-> threshold]
        passes == /\ length # 0
                  /\ ~(limit < 1 \/ limit > 50)
                  /\ ~(threshold < 0 \/ threshold > 30)
    IN /\ rpc = "idle"
       /\ rreq' = req
       /\ rpc' = IF passes THEN "call" ELSE "done"
       /\ rstatus' = IF passes THEN rstatus ELSE 400
       /\ UNCHANGED <<pvars, svars, tvars, kvars, gvars, fvars>>

(* await saveEmbedding(content, contentType, metadata, language)           *)
CallSaveEmbedding(u) ==
    /\ rpc = "call" /\ rreq.route = "generate"
    /\ \A v \in Saves : pc[v] = "idle"
    /\ StartSave(u, rreq.language)

(* await searchSimilarWithTranslation(query, contentType, limit,           *)
(* threshold, language)                                                    *)
CallSearch ==
    /\ rpc = "call" /\ rreq.route = "search"
    /\ StartSimilarWithTranslation(rreq.threshold, rreq.limit, rreq.contentType,
                                   rreq.language)

(* The awaited call has settled: res.status(201) or res.json(...) (200)    *)
(* when it resolved, next(err) (500) when it rejected.                     *)
RouteRespond ==
    /\ rpc = "call"
    /\ \/ /\ rreq.route = "generate"
          /\ \E u \in Saves :
                 /\ pc[u] \in {"resolved", "rejected"}
                 /\ rstatus' = IF pc[u] = "resolved" THEN 201 ELSE 500
       \/ /\ rreq.route = "search"
          /\ spc \in {"done", "rejected"}
          /\ rstatus' = IF spc = "done" THEN 200 ELSE 500
    /\ rpc' = "done"
    /\ UNCHANGED rreq
    /\ UNCHANGED <<pvars, svars, tvars, kvars, gvars, fvars>>

NextRoute ==
    \/ \E n \in {0, 1, 8001}, c \in {"source_code", "bogus"}, l \in Languages :
           PostGenerate(n, c, l)
    \/ \E n \in {0, 1, 1001}, c \in {NoFilter, "documentation", "bogus"},
          k \in {0, 1, 51}, t \in {15, 31}, l \in Languages :
           GetSearch(n, c, k, t, l)
    \/ \E u \in Saves : CallSaveEmbedding(u)
    \/ \E u \in Saves, a \in TranslatedAnswers : SaveTranslate(u, a)
    \/ \E u \in Saves, ok \in BOOLEAN : SaveEmbed(u, ok)
    \/ \E u \in Saves, ok \in BOOLEAN : SaveInsert(u, ok)
    \/ CallSearch
    \/ SearchTranslate
    \/ \E ok \in BOOLEAN : SearchEmbed(ok)
    \/ \E ok \in BOOLEAN : FixedQuery(ok)
    \/ RouteRespond

SpecRoute == InitRoute /\ [][NextRoute]_vars

(* ======================= claims on the units of work =================== *)
RowsOfDoc(u) == {r \in committed.embeddings_base : r.document_id = u}
DocRowsOf(u) == {d \in committed.documentation_embeddings : d.id = u}
SomeChunkFailed(u) == \E k \in ChunkIdx : chunkPc[u][k] = "failed"

(* C1: once processDocumentWithChunking has rejected because a chunk's     *)
(* embedding call or insert failed, the store holds, then and in every     *)
(* later state, no embeddings_base row and no documentation_embeddings row *)
(* of that document.                                                       *)
C1_IngestAtomic ==
    \A u \in Docs :
        (pc[u] = "rejected" /\ SomeChunkFailed(u)) =>
            (RowsOfDoc(u) = {} /\ DocRowsOf(u) = {})

(* C2: no committed embeddings_base row carries a document_id whose        *)
(* documentation_embeddings row is missing or has another total_chunks.    *)
C2_NoVisibleChunkWithoutDocument ==
    \A r \in committed.embeddings_base :
        r.document_id # NoDoc =>
            \E d \in committed.documentation_embeddings :
                d.id = r.document_id /\ d.total_chunks = r.chunk_total

(* C3: after a successful processDocumentWithChunking the document row     *)
(* stores total_chunks = N, every chunk row of the document has            *)
(* chunk_total = N and the chunk_index values are exactly 0..N-1.          *)
C3_DenseChunkIndexes ==
    \A u \in Docs :
        pc[u] = "resolved" =>
            /\ DocRowsOf(u) = {[id |-> u, total_chunks |-> nChunks[u]]}
            /\ \A r \in RowsOfDoc(u) : r.chunk_total = nChunks[u]
            /\ {r.chunk_index : r \in RowsOfDoc(u)} = 0..(nChunks[u] - 1)
            /\ Cardinality(RowsOfDoc(u)) = nChunks[u]

(* C4: saveUserPrompt commits its embeddings_base row and its user_prompts *)
(* row together or not at all; once it has rejected neither is stored.     *)
C4_PromptBothOrNeither ==
    \A u \in Prompts :
        /\ (PromptEmbeddingRow(u) \in committed.embeddings_base)
               <=> (PromptRow(u) \in committed.user_prompts)
        /\ pc[u] = "rejected" =>
               /\ PromptEmbeddingRow(u) \notin committed.embeddings_base
               /\ PromptRow(u) \notin committed.user_prompts

(* C4 witness: the user_prompts insert has failed after the embeddings row *)
(* was written in the same transaction.                                    *)
C4_Witness ==
    \E u \in Prompts :
        /\ pc[u] = "rollback"
        /\ connTxn[client[u]] = "aborted"
        /\ PromptEmbeddingRow(u) \in connPending[client[u]].embeddings_base
        /\ PromptRow(u) \notin connPending[client[u]].user_prompts

(* ========================= claims on the search ======================== *)
Finished == spc \in {"done", "rejected"}
CountOf(log, x) == Cardinality({i \in 1..Len(log) : log[i] = x})
Passes(r) == sargs.contentType = NoFilter \/ r.content_type = sargs.contentType
StoreRows == {searchRows[i] : i \in 1..Len(searchRows)}
ResultIds == {results[i].id : i \in 1..Len(results)}

Reachable(t) ==
    {r \in StoreRows : r.distance <= t /\ r.distance <= sargs.maxDistance /\ Passes(r)}

(* C6: progressive search tries 1.0, 1.5, 2.0, 2.5 in ascending order and  *)
(* stops at the first attempt that returns a row: usedThreshold is the     *)
(* smallest threshold with a non-empty result, the results are that        *)
(* attempt's rows, no store query follows it, and when no threshold        *)
(* yields a row all four are tried and the result is empty with            *)
(* usedThreshold = null.                                                   *)
C6_FirstNonEmptyThreshold ==
    (spc = "done" /\ sargs.mode = "progressive") =>
        /\ Len(attempts) \in 1..Len(thresholds)
        /\ \A i \in 1..Len(attempts) : attempts[i].threshold = thresholds[i]
        /\ \A i \in 1..(Len(attempts) - 1) : attempts[i].rows = <<>>
        /\ CountOf(callLog, "query") = Len(attempts)
        /\ \A i \in 1..Len(thresholds) :
               (i < Len(attempts)) => Reachable(thresholds[i]) = {}
        /\ IF \E i \in 1..Len(thresholds) : Reachable(thresholds[i]) # {}
           THEN /\ usedThreshold = thresholds[Len(attempts)]
                /\ Reachable(usedThreshold) # {}
                /\ Len(results) = Len(attempts[Len(attempts)].rows)
                /\ Len(results) > 0
                /\ \A i \in 1..Len(results) :
                       /\ results[i].id = attempts[Len(attempts)].rows[i].id
                       /\ results[i].distance = attempts[Len(attempts)].rows[i].distance
                /\ ResultIds \subseteq {r.id : r \in Reachable(usedThreshold)}
           ELSE /\ usedThreshold = NullThreshold
                /\ Len(attempts) = Len(thresholds)
                /\ results = <<>>

(* C6 witness: the first attempt is empty and the second one returns rows. *)
C6_Witness ==
    /\ spc = "done" /\ sargs.mode = "progressive"
    /\ Len(attempts) = 2
    /\ usedThreshold = 15
    /\ Len(results) > 0

(* C7: with the thresholds [1.0, 1.5, 2.0, 2.5] and a store holding        *)
(* exactly one record, at distance 1.3 from the query, progressive search  *)
(* returns that record and reports usedThreshold = 1.5.                    *)
C7_SingleRecordAt13 ==
    ( /\ spc = "done" /\ sargs.mode = "progressive"
      /\ Len(searchRows) = 1
      /\ searchRows[1].distance = 13
      /\ Passes(searchRows[1]) ) =>
        /\ usedThreshold = 15
        /\ Len(results) = 1
        /\ results[1].id = searchRows[1].id

C9_SimilarityClamped ==
    \A i \in 1..Len(results) :
        /\ results[i].similarity >= 0
        /\ results[i].distance <= One => results[i].similarity = One - results[i].distance
        /\ results[i].distance >= One => results[i].similarity = 0
        /\ results[i].distance = 0 => results[i].similarity = One
        /\ results[i].distance = 20 => results[i].similarity = 0

(* C9 witness: one result at distance 0.0 and one at distance 2.0.         *)
C9_Witness ==
    /\ spc = "done"
    /\ \E i, j \in 1..Len(results) :
           results[i].distance = 0 /\ results[j].distance = 20

(* C10: fixed-threshold search returns the records within the threshold    *)
(* (of the searched type) ascending by distance and truncated to limit:    *)
(* min(limit, matches) entries, each a distinct matching record, and no    *)
(* omitted matching record is closer than a returned one.                  *)
C10_SortedAndTruncated ==
    (spc = "done" /\ sargs.mode = "fixed") =>
        LET matching == {r \in StoreRows : r.distance <= sargs.threshold /\ Passes(r)}
        IN /\ Len(results) = Min(sargs.limit, Cardinality(matching))
           /\ \A i, j \in 1..Len(results) :
                  i < j => /\ results[i].distance <= results[j].distance
                           /\ results[i].id # results[j].id
           /\ \A i \in 1..Len(results) :
                  \E r \in matching :
                      r.id = results[i].id /\ r.distance = results[i].distance
           /\ \A r \in matching :
                  r.id \notin ResultIds =>
                      \A i \in 1..Len(results) : results[i].distance <= r.distance

(* C10 witness: two matching records stored farthest first, limit 1: the   *)
(* closer one is returned.                                                 *)
C10_Witness ==
    /\ spc = "done" /\ sargs.mode = "fixed" /\ sargs.limit = 1
    /\ Len(searchRows) = 2
    /\ searchRows[1].distance > searchRows[2].distance
    /\ searchRows[1].distance <= sargs.threshold
    /\ Passes(searchRows[1]) /\ Passes(searchRows[2])
    /\ Len(results) = 1

(* Rows the WHERE clause of the finished search admits, stated on the      *)
(* store: within the threshold (and the ceiling in progressive mode) and   *)
(* of the filtered type.                                                   *)
Candidates ==
    IF sargs.mode = "fixed"
    THEN {r \in StoreRows : r.distance <= sargs.threshold /\ Passes(r)}
    ELSE IF usedThreshold = NullThreshold THEN {} ELSE Reachable(usedThreshold)

(* C11: with a contentTypeFilter every result of fixed-threshold and       *)
(* progressive search has that type, and threshold and limit count only    *)
(* records of that type: the results are min(limit, matches of the type)   *)
(* records of the type, so a closer record of another type never takes a   *)
(* place; without a filter records of every type are candidates.           *)
C11_ContentTypeFilter ==
    spc = "done" =>
        /\ sargs.contentType # NoFilter =>
               \A i \in 1..Len(results) : results[i].contentType = sargs.contentType
        /\ ResultIds \subseteq {r.id : r \in Candidates}
        /\ Len(results) = Min(sargs.limit, Cardinality(Candidates))
        /\ sargs.contentType = NoFilter =>
               Len(results) = Min(sargs.limit,
                                  Cardinality({r \in StoreRows :
                                      /\ r.distance <= sargs.maxDistance \/ sargs.mode = "fixed"
                                      /\ r.distance <= (IF sargs.mode = "fixed"
                                                        THEN sargs.threshold
                                                        ELSE usedThreshold)}))

(* C11 witness: filter 'documentation', limit 1, the closest record is a   *)
(* prompt and a farther documentation record is the one returned.          *)
C11_Witness ==
    /\ spc = "done" /\ sargs.contentType = "documentation" /\ sargs.limit = 1
    /\ Len(searchRows) = 2
    /\ searchRows[1].content_type = "prompt"
    /\ searchRows[2].content_type = "documentation"
    /\ searchRows[1].distance < searchRows[2].distance
    /\ Len(results) = 1 /\ results[1].id = searchRows[2].id

(* ======================= claims on the translator ====================== *)
ResolvesToEnglish ==
    \/ targs.sourceLanguage = "en"
    \/ targs.sourceLanguage = "auto" /\ targs.text \in EnglishTexts

(* C12: a translator call whose sourceLanguage resolves to English returns *)
(* translatedText equal to the input text and wasTranslated = false,       *)
(* whatever the language model answered.                                   *)
C12_EnglishReturnedUnchanged ==
    (tpc = "returned" /\ ResolvesToEnglish) =>
        /\ tresult.translatedText = targs.text
        /\ tresult.wasTranslated = "false"

WellFormed(answer) ==
    /\ answer.kind = "json"
    /\ answer.translatedText # Undefined
    /\ answer.wasTranslated # Undefined

(* C13: whenever the model call failed, answered something that is not     *)
(* JSON, or answered JSON without translatedText or without wasTranslated, *)
(* the translator returns translatedText = the original text,              *)
(* wasTranslated = false and detectedLanguage = "unknown".                 *)
C13_MalformedAnswerFallsBack ==
    (tpc = "returned" /\ ~WellFormed(tanswer)) =>
        /\ tresult.translatedText = targs.text
        /\ tresult.wasTranslated = "false"
        /\ tresult.detectedLanguage = "unknown"

(* ======================== claims on the chunker ======================== *)
(* The call passes both numbers and 0 <= overlapUnits < maxUnits.          *)
ValidSplitCall ==
    /\ kargs.maxWords # NullArg /\ kargs.overlap # NullArg
    /\ 0 <= kargs.overlap /\ kargs.overlap < kargs.maxWords

(* C14: every call split(text, maxUnits, overlapUnits) with                *)
(* 0 <= overlapUnits < maxUnits, overlapUnits = 0 and maxUnits < 25        *)
(* included, terminates: the loop index starts at 0 and the loop ends only *)
(* once it has reached words.length, so the loop advances by a positive    *)
(* step and runs at most words.length iterations.                          *)
C14_ChunkerTerminates ==
    (kpc = "loop" /\ ValidSplitCall) =>
        /\ maxWordsToUse - overlapToUse >= 1
        /\ kiter <= Len(words)

CeilDiv(a, b) == (a + b - 1) \div b

(* C15: for overlapUnits < maxUnits the returned chunks are non-empty,     *)
(* hold at most maxUnits words each, contain every word of the text in the *)
(* original order, and number ceil((wordCount - overlap) /                 *)
(* (maxUnits - overlap)) when wordCount > overlap.                         *)
C15_ChunksCoverAndCount ==
    (kpc = "done" /\ ValidSplitCall) =>
        /\ \A c \in 1..Len(chunks) :
               /\ chunks[c] # <<>>
               /\ Len(chunks[c]) <= kargs.maxWords
               /\ \A a, b \in 1..Len(chunks[c]) : a < b => chunks[c][a] < chunks[c][b]
        /\ \A w \in 1..kargs.text.n :
               \E c \in 1..Len(chunks) : \E a \in 1..Len(chunks[c]) : chunks[c][a] = w
        /\ \A c, d \in 1..Len(chunks) : c < d => chunks[c][1] < chunks[d][1]
        /\ kargs.text.n > kargs.overlap =>
               Len(chunks) = CeilDiv(kargs.text.n - kargs.overlap,
                                     kargs.maxWords - kargs.overlap)

(* C16: when the effective overlap is not below the effective maximum the  *)
(* chunker fails before its loop: it executes no iteration, produces no    *)
(* chunk and does not return a chunk sequence.                             *)
C16_FailsFastOnBadStep ==
    (kpc \in {"loop", "done"} /\ overlapToUse >= maxWordsToUse) =>
        (kiter = 0 /\ chunks = <<>> /\ kpc # "done")

(* ================= claims on upstream failures in a unit =============== *)
(* The caller threw at cleanTextForEmbedding: the translator gave no text. *)
ThrewAtClean(info) == info # NoTranslation /\ info.translatedText = Undefined

(* The translator call failed and the catch block answered.                *)
TranslationFailed(info) == info # NoTranslation /\ info.detectedLanguage = "unknown"

(* Under SpecSave the database answers every statement, so a chunk task    *)
(* that failed although it had a text to clean failed at generateEmbedding.*)
ChunkEmbeddingFailed(u) ==
    \E k \in ChunkIdx :
        chunkPc[u][k] = "failed" /\ ~ThrewAtClean(chunkTranslationInfo[u][k])

(* C17: a failing embedding call aborts the unit of work and nothing the   *)
(* unit wrote is committed: a document one of whose chunk embeddings       *)
(* failed is rolling back or rejected and has no documentation_embeddings  *)
(* row and no embeddings_base row in the store; a rejected saveUserPrompt  *)
(* or saveEmbedding has stored nothing; and every stored chunk row comes   *)
(* from a chunk task whose embedding call succeeded.                       *)
C17_EmbeddingFailureAborts ==
    /\ \A u \in Docs :
           ChunkEmbeddingFailed(u) =>
               /\ pc[u] \in {"rollback", "rejected"}
               /\ RowsOfDoc(u) = {} /\ DocRowsOf(u) = {}
    /\ \A u \in Prompts :
           pc[u] \in {"rollback", "rejected"} =>
               /\ PromptEmbeddingRow(u) \notin committed.embeddings_base
               /\ PromptRow(u) \notin committed.user_prompts
    /\ \A u \in Saves :
           pc[u] = "rejected" => SaveRow(u) \notin committed.embeddings_base
    /\ \A u \in Docs : \A r \in RowsOfDoc(u) : chunkPc[u][r.chunk_index] = "done"

(* C18: a failing translation call does not abort the unit: the task goes  *)
(* on to the embedding with the original text and wasTranslated = false    *)
(* (while no embedding call has failed it is never failed or rolling       *)
(* back), every row it stores has content = cleaned original text and      *)
(* was_translated = false, and a unit that resolved has stored the row of  *)
(* every part whose translation call failed.                               *)
C18_TranslationFailureDegrades ==
    /\ \A u \in Docs, k \in ChunkIdx :
           TranslationFailed(chunkTranslationInfo[u][k]) =>
               /\ ChunkRow(u, k).content = cleanTextForEmbedding(Content)
               /\ ChunkRow(u, k).was_translated = "false"
               /\ faults = 0 => chunkPc[u][k] \in {"embed", "insert", "done"}
               /\ pc[u] = "resolved" => ChunkRow(u, k) \in committed.embeddings_base
    /\ \A u \in Prompts :
           TranslationFailed(translationInfo[u]) =>
               /\ PromptEmbeddingRow(u).content = cleanTextForEmbedding(Content)
               /\ PromptEmbeddingRow(u).was_translated = "false"
               /\ faults = 0 => pc[u] \in {"embed", "insertEmbedding", "insertPrompt",
                                            "commit", "resolved"}
               /\ pc[u] = "resolved" =>
                      /\ PromptEmbeddingRow(u) \in committed.embeddings_base
                      /\ PromptRow(u) \in committed.user_prompts
    /\ \A u \in Saves :
           TranslationFailed(translationInfo[u]) =>
               /\ SaveRow(u).content = cleanTextForEmbedding(Content)
               /\ SaveRow(u).was_translated = "false"
               /\ pc[u] # "translate"
               /\ pc[u] = "resolved" => SaveRow(u) \in committed.embeddings_base

(* C18 witness: a document has resolved, the translation call of one of    *)
(* its chunks had failed and the chunk is stored; a saveEmbedding whose    *)
(* translation call failed has resolved too.                               *)
C18_Witness ==
    /\ \E u \in Docs, k \in ChunkIdx :
           /\ pc[u] = "resolved"
           /\ TranslationFailed(chunkTranslationInfo[u][k])
           /\ ChunkRow(u, k) \in committed.embeddings_base
    /\ \E u \in Saves :
           /\ pc[u] = "resolved"
           /\ TranslationFailed(translationInfo[u])

(* ================== claims on concurrent units of work ================= *)
(* The unit is between the BEGIN and the COMMIT or ROLLBACK of its         *)
(* transaction.                                                            *)
InTransaction(u) ==
    pc[u] \notin {"idle", "connect", "begin", "resolved", "rejected"}

(* C19: two concurrent processDocumentWithChunking calls are independent:  *)
(* the transaction of a document holds only rows written by that document  *)
(* (no statement of another document is executed inside it), and it is     *)
(* aborted only by a failing statement of its own, after which the         *)
(* document is rolling back.                                               *)
C19_IngestsIndependent ==
    \A b \in Docs :
        InTransaction(b) =>
            /\ \A r \in connPending[client[b]].embeddings_base :
                   r.unit \in Docs => r.unit = b
            /\ connTxn[client[b]] = "aborted" => pc[b] = "rollback"

(* C20: every chunk insert of a processDocumentWithChunking call is        *)
(* executed on its transactional connection after its BEGIN and before     *)
(* its COMMIT or ROLLBACK: whenever a chunk task's INSERT runs, the call    *)
(* is still inside transaction() and its client has a transaction.         *)
C20_InsertsInsideTransaction ==
    [][\A u \in Docs, k \in ChunkIdx :
          (chunkPc[u][k] = "insert" /\ chunkPc'[u][k] # "insert") =>
              /\ pc[u] \in {"await", "rollback"}
              /\ connTxn[client[u]] # "none"]_vars

(* ===================== claims on the document record ================== *)
(* Rows of document u in a set of tables whose total_chunks has been set.  *)
CountedDocRows(tables, u) ==
    {d \in tables.documentation_embeddings : d.id = u /\ d.total_chunks # 0}

AllChunksInserted(u) ==
    /\ \A k \in ChunkIdx : k < nChunks[u] => chunkPc[u][k] = "done"
    /\ processedChunks[u] = nChunks[u]

(* The steps of document u that concern its documentation_embeddings row.  *)
C21_Step(u) ==
    /\ (pc[u] = "insertDoc" /\ pc'[u] \in {"await", "update"}) =>
           /\ DocRow(u) \in connPending'[client[u]].documentation_embeddings
           /\ \A k \in ChunkIdx : chunkPc[u][k] = "none"
    /\ (\E k \in ChunkIdx : chunkPc[u][k] = "insert" /\ chunkPc'[u][k] # "insert") =>
           pc[u] \in {"await", "rollback", "rejected"}
    /\ (pc[u] = "update" /\ pc'[u] # "update") =>
           /\ AllChunksInserted(u)
           /\ DocRow(u) \in connPending[client[u]].documentation_embeddings
           /\ pc'[u] = "commit" =>
                  [id |-> u, total_chunks |-> nChunks[u]]
                      \in connPending'[client[u]].documentation_embeddings
    /\ (pc'[u] = "update" /\ pc[u] # "update") => pc[u] \in {"insertDoc", "await"}
    /\ pc[u] \in {"update", "commit", "rollback", "resolved", "rejected"} =>
           pc'[u] \notin {"insertDoc", "await"}
    /\ pc[u] \in {"commit", "rollback", "resolved", "rejected"} => pc'[u] # "update"
    /\ \A c \in Conns :
           ~(CountedDocRows(connPending'[c], u) \subseteq CountedDocRows(connPending[c], u))
               => (pc[u] = "update" /\ pc'[u] = "commit" /\ c = client[u])
    /\ ~(CountedDocRows(committed', u) \subseteq CountedDocRows(committed, u))
           => (pc[u] = "commit" /\ pc'[u] = "resolved")

(* C21: processDocumentWithChunking inserts the documentation_embeddings   *)
(* row with total_chunks = 0 before any chunk task exists; the UPDATE of   *)
(* total_chunks is executed at most once, sets chunks.length, and runs     *)
(* only when every chunk insert has succeeded; a run one of whose chunk    *)
(* tasks failed never reaches the UPDATE, and a rejected run leaves no     *)
(* row with an updated total_chunks.                                       *)
C21_TotalUpdatedOnceAtEnd ==
    /\ [][\A u \in Docs : C21_Step(u)]_vars
    /\ [](\A u \in Docs :
             /\ SomeChunkFailed(u) => pc[u] \notin {"update", "commit", "resolved"}
             /\ pc[u] = "rejected" => CountedDocRows(committed, u) = {})

(* C21 witness: a document of two chunks has resolved and its row stores   *)
(* total_chunks = 2.                                                       *)
C21_Witness ==
    \E u \in Docs :
        /\ pc[u] = "resolved" /\ nChunks[u] = 2
        /\ [id |-> u, total_chunks |-> 2] \in committed.documentation_embeddings

(* =================== claims on the chunker's parameters ================ *)
(* C24: the chunker works with the values it is given: a supplied maxWords *)
(* and a supplied overlap (0 included) are the size and overlap used, a    *)
(* value configured in the environment is used when the argument is        *)
(* absent, and 50 and 25 apply only when a value is absent from both; for  *)
(* a supplied pair with 0 <= overlap < maxWords the first chunk of a text  *)
(* without leading whitespace has min(maxWords, wordCount) words and each  *)
(* chunk starts maxWords - overlap words after the one before.             *)
C24_SuppliedValuesUsed ==
    kpc \in {"loop", "done"} =>
        /\ kargs.maxWords # NullArg => maxWordsToUse = kargs.maxWords
        /\ kargs.overlap # NullArg => overlapToUse = kargs.overlap
        /\ (kargs.maxWords = NullArg /\ kargs.envMaxWords # NullArg) =>
               maxWordsToUse = kargs.envMaxWords
        /\ (kargs.overlap = NullArg /\ kargs.envOverlapWords # NullArg) =>
               overlapToUse = kargs.envOverlapWords
        /\ (kargs.maxWords = NullArg /\ kargs.envMaxWords = NullArg) =>
               maxWordsToUse = DefaultMaxWords
        /\ (kargs.overlap = NullArg /\ kargs.envOverlapWords = NullArg) =>
               overlapToUse = DefaultOverlapWords
        /\ (kpc = "done" /\ ValidSplitCall /\ ~kargs.text.lead /\ kargs.text.n > 0) =>
               /\ Len(chunks) >= 1
               /\ Len(chunks[1]) = Min(kargs.maxWords, kargs.text.n)
               /\ \A c \in 1..(Len(chunks) - 1) :
                      chunks[c + 1][1] - chunks[c][1] = kargs.maxWords - kargs.overlap

(* ===================== claims on what is stored ======================== *)
(* What the translator returned for the part of the unit a row comes from. *)
InfoOf(r) ==
    IF r.unit \in Docs THEN chunkTranslationInfo[r.unit][r.chunk_index]
    ELSE translationInfo[r.unit]

(* The translator was called for the row's text and answered with a text.  *)
TranslationProduced(r) == InfoOf(r) # NoTranslation /\ ~TranslationFailed(InfoOf(r))

(* C23: every stored embeddings_base row has content = the cleaned text    *)
(* that came out of the translation step (the translator's translatedText  *)
(* when it was called, the submitted text when the language is 'en') and   *)
(* embedding = the embedding of exactly that content; when a translation   *)
(* was produced the embedded text is not the untranslated original; and    *)
(* user_prompts.prompt_text is the submitted prompt text.                  *)
C23_ContentIsWhatIsEmbedded ==
    /\ \A r \in committed.embeddings_base :
           /\ r.embedding = generateEmbedding(r.content)
           /\ r.content = cleanTextForEmbedding(
                              IF lang[r.unit] = "en" THEN Content
                              ELSE InfoOf(r).translatedText)
           /\ TranslationProduced(r) =>
                  /\ r.content = cleanTextForEmbedding(InfoOf(r).translatedText)
                  /\ r.embedding # generateEmbedding(cleanTextForEmbedding(Content))
                  /\ r.embedding # generateEmbedding(Content)
    /\ \A q \in committed.user_prompts : q.prompt_text = Content

(* C23 witness: a translated prompt is stored with both its rows, and      *)
(* saveEmbedding has stored a translated text.                             *)
C23_Witness ==
    /\ \E r \in committed.embeddings_base :
           /\ r.unit \in Prompts /\ TranslationProduced(r)
           /\ PromptRow(r.unit) \in committed.user_prompts
    /\ \E r \in committed.embeddings_base :
           r.unit \in Saves /\ TranslationProduced(r)

(* ================= claims on the end of a transaction ================== *)
(* transaction() has returned or thrown: COMMIT or ROLLBACK was issued and *)
(* the client went back to the pool.                                       *)
TransactionEnded(u) == pc[u] \in {"resolved", "rejected"} /\ client[u] # NoClient

(* C28: once the transaction of a unit of work has ended and its client is *)
(* released, the unit executes no statement on that client: no chunk task  *)
(* of a document whose transaction has ended runs its INSERT, and chunk    *)
(* rows enter the store only through a COMMIT, never by autocommit.        *)
C28_NoStatementAfterTransactionEnds ==
    [][/\ \A u \in Docs, k \in ChunkIdx :
             (TransactionEnded(u) /\ chunkPc[u][k] = "insert") =>
                 chunkPc'[u][k] = "insert"
       /\ \A u \in Docs :
             {r \in committed'.embeddings_base : r.document_id = u} # RowsOfDoc(u) =>
                 \E v \in Units : pc[v] = "commit" /\ pc'[v] = "resolved"]_vars

(* ================ claims on the ceiling of the search ================== *)
(* C30: every result of progressive search has                             *)
(* distance <= min(usedThreshold, maxDistance); so for maxDistance <= 1.0  *)
(* a search that returns anything reports usedThreshold = 1.0, and the     *)
(* attempts at 1.5, 2.0 and 2.5 return no row: no threshold admits a row   *)
(* that 1.0 does not.                                                      *)
C30_ResultsWithinBothBounds ==
    sargs # <<>> /\ sargs.mode = "progressive" =>
        /\ \A i \in 1..Len(results) :
               results[i].distance <= Min(usedThreshold, sargs.maxDistance)
        /\ sargs.maxDistance <= One =>
               /\ Len(results) > 0 => usedThreshold = thresholds[1]
               /\ \A a \in 2..Len(attempts) : attempts[a].rows = <<>>
               /\ \A i \in 1..Len(thresholds) :
                      Reachable(thresholds[i]) = Reachable(thresholds[1])

(* C30 witness: maxDistance 0.8, a record of the searched type at distance *)
(* 1.3, all four thresholds tried and nothing returned.                    *)
C30_Witness ==
    /\ spc = "done" /\ sargs.mode = "progressive" /\ sargs.maxDistance = DefaultMaxDistance
    /\ Len(attempts) = Len(thresholds)
    /\ \E r \in StoreRows : r.distance = 13 /\ Passes(r)
    /\ results = <<>>

(* ================== claims on the transaction helper =================== *)
(* The unit holds the client pool.connect() gave it.                       *)
Holding(u) == pc[u] \notin {"idle", "connect", "resolved", "rejected"}

Transactional == Docs \cup Prompts

(* The last await of the callback: its success is the callback resolving.  *)
LastCallbackStep(u) == IF u \in Docs THEN "update" ELSE "insertPrompt"

(* The steps of transaction() for unit u.                                  *)
C29_Step(u) ==
    /\ (pc'[u] = "commit" /\ pc[u] # "commit") => pc[u] = LastCallbackStep(u)
    /\ (pc'[u] = "resolved" /\ pc[u] # "resolved") =>
           /\ pc[u] = "commit"
           /\ connTxn[client[u]] = "open" =>
                  committed' = MergeTables(committed, connPending[client[u]])
    /\ (pc'[u] = "rollback" /\ pc[u] # "rollback") => Holding(u)
    /\ pc[u] = "begin" => pc'[u] \in {"begin", CallbackEntry(u), "rollback"}
    /\ pc[u] = LastCallbackStep(u) =>
           pc'[u] \in {LastCallbackStep(u), "commit", "rollback"}
    /\ pc[u] = "commit" => pc'[u] \in {"commit", "resolved", "rollback"}
    /\ (pc'[u] = "rejected" /\ pc[u] # "rejected") =>
           /\ pc[u] = "rollback"
           /\ committed' = committed
           /\ connPending'[client[u]] = EmptyTables
    /\ (Holding(u) /\ ~Holding(u)') =>
           /\ idle' = Append(idle, client[u])
           /\ connTxn'[client[u]] = "none"

(* C29: transaction() issues COMMIT only when the callback has resolved,   *)
(* and a COMMIT that succeeds on a transaction no statement failed in      *)
(* stores what the transaction wrote; every other path (a failing BEGIN, a *)
(* rejecting callback, a failing COMMIT) goes through ROLLBACK and stores  *)
(* nothing; and on every path, a failing ROLLBACK included, the client is  *)
(* released exactly once: the idle clients and the clients held by running *)
(* units are always the whole pool, each client once.                      *)
C29_CommitOrRollbackAndRelease ==
    /\ [][/\ \A u \in Transactional : C29_Step(u)
          /\ idle' # idle =>
                 \E u \in Transactional :
                     \/ /\ pc[u] = "connect" /\ Holding(u)'
                        /\ client'[u] = PoolPop /\ idle' = PoolRest
                     \/ /\ Holding(u) /\ ~Holding(u)'
                        /\ idle' = Append(idle, client[u])]_vars
    /\ [](/\ \A i, j \in 1..Len(idle) : i # j => idle[i] # idle[j]
          /\ \A u \in Transactional :
                 Holding(u) =>
                     /\ \A i \in 1..Len(idle) : idle[i] # client[u]
                     /\ \A v \in Transactional :
                            (v # u /\ Holding(v)) => client[v] # client[u]
          /\ Len(idle) + Cardinality({u \in Transactional : Holding(u)}) = PoolSize)

(* C29 witness: a document whose chunk inserts all succeeded has been      *)
(* rejected after two failures, the second of them its ROLLBACK, and every *)
(* client is back in the pool.                                             *)
C29_Witness ==
    \E u \in Docs :
        /\ pc[u] = "rejected" /\ nChunks[u] = MaxChunks
        /\ processedChunks[u] = MaxChunks
        /\ faults = 2
        /\ \A v \in Prompts : pc[v] = "idle"
        /\ Len(idle) = PoolSize

(* ======================= claims on the store as a whole ================ *)
ReadStep == spc' # spc \/ gpc' # gpc

(* C22: an embeddings_base row is immutable once written. In every step    *)
(* each committed embeddings_base row and each user_prompts row is still   *)
(* there with every field it had; the rows a transaction has written so    *)
(* far stay as they are until it ends; a documentation_embeddings row      *)
(* keeps its id and changes at most in total_chunks; and a step of a       *)
(* search or of getDocumentChunks changes no table at all.                 *)
C22_Step ==
    /\ committed.embeddings_base \subseteq committed'.embeddings_base
    /\ committed.user_prompts \subseteq committed'.user_prompts
    /\ \A d \in committed.documentation_embeddings :
           \E e \in committed'.documentation_embeddings : e.id = d.id
    /\ \A c \in Conns :
           \/ connPending'[c] = EmptyTables
           \/ /\ connPending[c].embeddings_base \subseteq connPending'[c].embeddings_base
              /\ connPending[c].user_prompts \subseteq connPending'[c].user_prompts
              /\ \A d \in connPending[c].documentation_embeddings :
                     \E e \in connPending'[c].documentation_embeddings : e.id = d.id
    /\ ReadStep => UNCHANGED <<committed, connPending, connTxn>>

C22_RecordsImmutable == [][C22_Step]_vars

(* A search and getDocumentChunks have both returned rows of a store that  *)
(* holds the committed chunks of a document whose total_chunks was         *)
(* updated.                                                                *)
C22_Witness ==
    /\ spc = "done" /\ Len(results) > 0
    /\ gpc = "done" /\ Len(documentChunks) = MaxChunks
    /\ \E d \in committed.documentation_embeddings : d.total_chunks = MaxChunks
    /\ Cardinality(committed.embeddings_base) > MaxChunks

(* ======================= claims on the project files =================== *)
(* P's directory or a path beneath it: P's path followed by a separator.   *)
Beneath(base, path) ==
    Len(path) >= Len(base) /\ SubSeq(path, 1, Len(base)) = base

(* C26: whatever file a request to /projects/P/files has read, written or  *)
(* removed lies in P's directory, and a request whose filepath resolves    *)
(* outside P has been answered 400.                                        *)
C26_FilesStayInsideProject ==
    \A r \in 1..NumRequests :
        (freq[r] # <<>> /\ isValidProjectId(freq[r].id)) =>
            /\ \A t \in ftouched[r] : Beneath(resolveProjectPath(freq[r].id), t)
            /\ (/\ fpc[r] = "done"
                /\ freq[r].id = <<"p">>
                /\ ~Beneath(resolveProjectPath(freq[r].id), freq[r].target))
                   => fstatus[r] = 400

(* C27: no POST with overwrite = false writes a file that exists when it   *)
(* is written.                                                             *)
C27_Step(r) ==
    (fpc[r] = "writeFile" /\ fpc'[r] = "done" /\ ~freq[r].overwrite) =>
        freq[r].target \notin DOMAIN files

C27_NoOverwriteWhenForbidden == [][\A r \in 1..NumRequests : C27_Step(r)]_vars

(* ======================= claims on the routes ========================== *)
(* C25: a request whose content or query is oversized or empty or whose    *)
(* content type is not one of the four kinds never makes the service issue *)
(* a translation call, an embedding call or a database statement, and is   *)
(* answered 400.                                                           *)
C25_InvalidRejectedBeforeAnyCall ==
    (/\ rreq # <<>>
     /\ IF rreq.route = "generate" THEN ~generateEmbeddingSchema(rreq)
        ELSE ~searchSchema(rreq)) =>
        /\ callLog = <<>>
        /\ spc = "idle"
        /\ \A u \in Saves : pc[u] = "idle"
        /\ rpc = "done" /\ rstatus = 400
====
